---- MODULE Spec2Model ----
(***************************************************************************)
(* A model of libyang's YIN schema compiler (parser/yin.c, held in         *)
(* src/src/xml.h from line 247 on) and of the context's module registry it *)
(* fills.                                                                   *)
(*                                                                          *)
(* Strings.  A C string is a sequence of lexical pieces: a maximal run of   *)
(* ordinary characters ("pp", "string") or one delimiter character (":",    *)
(* " ").  strchr, strncmp and strpbrk are modelled on these sequences.      *)
(* NoAttr stands for the NULL that lyxml_get_attr returns for a missing     *)
(* attribute; <<>> is the empty string.                                     *)
(*                                                                          *)
(* Pointers.  A module is a handle into `heap`; a schema node is the path   *)
(* of its YIN element inside the document, looked up in the module's node   *)
(* store; an identity is [m, i] (module handle, index in module->ident); a  *)
(* typedef is a TpdfRef.  NULL is 0, NullId the null node pointer.          *)
(***************************************************************************)
EXTENDS Integers, Sequences, FiniteSets, TLC

NULL == 0

NullId == <<>>

NoAttr == <<"(null)">>

\* ------------------------------------------------------------------ bounds
MaxHandles == 3

MaxCalls == 3

\* ------------------------------------------------------- program constants
\* sizeof(struct ly_module *) of the build
SizeofPtr == 8

\* ctx->models.size as ly_ctx_new leaves it (scaled down)
InitSize == 2

INT32_MAX == 2147483647

Handles == 1..MaxHandles

\* --------------------------------------------------------------- YIN input
\* A parsed YIN element: its name, the value of its one argument attribute
\* (name, value, uri, date, module), its namespace and its child elements.
E(n, a, k) == [name |-> n, arg |-> a, ns |-> "yin", kids |-> k]

\* ------------------------------------------------------------ schema model
NoIdent == [m |-> NULL, i |-> 0]

NoTpdf == [k |-> "null", m |-> NULL, path |-> NullId, i |-> 0, t |-> "der"]

BuiltinRef(t) == [k |-> "builtin", m |-> NULL, path |-> NullId, i |-> 0, t |-> t]

ModTpdfRef(m, i) == [k |-> "mod", m |-> m, path |-> NullId, i |-> i, t |-> "der"]

NodeTpdfRef(m, p, i) == [k |-> "node", m |-> m, path |-> p, i |-> i, t |-> "der"]

\* struct ly_type after calloc
EmptyType ==
  [prefix |-> NoAttr, der |-> NoTpdf, base |-> "der",
   enums |-> <<>>, count |-> 0, ident |-> NoIdent]

\* struct ly_tpdf after calloc: the name is NULL
EmptyTpdf == [name |-> NoAttr, type |-> EmptyType, flags |-> {}]

EmptyIdent == [name |-> NoAttr, flags |-> {}, base |-> NoIdent, der |-> <<>>]

\* a pointer to a grouping: the module that holds the node and its path
NoGrp == [m |-> NULL, path |-> NullId]

\* struct ly_mnode_* after calloc, prev pointing at the node itself
NewNode(id, nodetype) ==
  [nodetype |-> nodetype, name |-> NoAttr, flags |-> {}, module |-> NULL,
   parent |-> NullId, child |-> NullId, next |-> NullId, prev |-> id,
   type |-> EmptyType, tpdf |-> <<>>, tpdf_size |-> 0,
   keys |-> <<>>, keys_size |-> 0, grp |-> NoGrp]

\* struct ly_module after calloc in yin_read_module
NewModule(ctxname) ==
  [live |-> TRUE, name |-> ctxname, ns |-> NoAttr, prefix |-> NoAttr,
   version |-> 0, dsc |-> NoAttr, ref |-> NoAttr, org |-> NoAttr,
   contact |-> NoAttr,
   rev |-> <<>>, rev_size |-> 0, imp |-> <<>>, imp_size |-> 0,
   inc |-> <<>>, inc_size |-> 0, tpdf |-> <<>>, tpdf_size |-> 0,
   ident |-> <<>>, ident_size |-> 0,
   data |-> NullId, nodes |-> <<>>]

\* a freed block
FreeBlock ==
  [live |-> FALSE, name |-> NoAttr, ns |-> NoAttr, prefix |-> NoAttr,
   version |-> 0, dsc |-> NoAttr, ref |-> NoAttr, org |-> NoAttr,
   contact |-> NoAttr,
   rev |-> <<>>, rev_size |-> 0, imp |-> <<>>, imp_size |-> 0,
   inc |-> <<>>, inc_size |-> 0, tpdf |-> <<>>, tpdf_size |-> 0,
   ident |-> <<>>, ident_size |-> 0,
   data |-> NullId, nodes |-> <<>>]

\* the built-in types, ly_types[1 .. LY_DATA_TYPE_COUNT - 1]
LyTypes ==
  << "binary", "bits", "boolean", "decimal64", "empty", "enumeration",
     "identityref", "instance-identifier", "int8", "int16", "int32", "int64",
     "leafref", "string", "uint8", "uint16", "uint32", "uint64", "union" >>

\* ----------------------------------------------------------------- strings
\* strchr(s, c): the position of the first piece c, 0 when there is none
RECURSIVE StrChrFrom(_, _, _)
StrChrFrom(s, c, i) ==
  IF i > Len(s) THEN 0
  ELSE IF s[i] = c THEN i
  ELSE StrChrFrom(s, c, i + 1)

StrChr(s, c) == StrChrFrom(s, c, 1)

\* !strncmp(name, pfx, len) && !pfx[len], len the pieces before name's colon
PrefixIs(name, len, pfx) ==
  /\ pfx # NoAttr
  /\ Len(pfx) = len
  /\ SubSeq(name, 1, len) = pfx

\* the pieces after position i
Tail_(s, i) == SubSeq(s, i + 1, Len(s))

\* a value computed once and used by what follows: r = f(...); ... r ...
With(r, Rest(_)) == Rest(r)

\* ------------------------------------------------------- find_superior_type
\* what a lookup returns: st is "found", "null" (NULL returned) or "crash"
\* (a read through a null pointer trapped)
Lookup(st, ref, tp) == [st |-> st, ref |-> ref, tp |-> tp]

\* ly_types[i].def: the descriptor of a built-in, which derives from nothing
BuiltinTpdf(t) ==
  [name |-> <<t>>, type |-> [EmptyType EXCEPT !.base = t], flags |-> {}]

\* for (i = 1; i < LY_DATA_TYPE_COUNT; i++) if (!strcmp(ly_types[i].def->name, name))
RECURSIVE ScanBuiltin(_, _)
ScanBuiltin(name, i) ==
  IF i > Len(LyTypes) THEN 0
  ELSE IF <<LyTypes[i]>> = name THEN i
  ELSE ScanBuiltin(name, i + 1)

\* for (i = 0; i < tpdf_size; i++) if (!strcmp(tpdf[i].name, qname)): the index
\* found (1-based), 0 for none, -1 when strcmp read a NULL name and trapped.
\* Where page zero is readable a NULL name reads as the empty string.
RECURSIVE ScanTpdf(_, _, _, _, _)
ScanTpdf(tpdf, size, qname, i, nullpage) ==
  IF i > size THEN 0
  ELSE IF tpdf[i].name = NoAttr
       THEN IF nullpage = "trap" THEN -1
            ELSE IF qname = <<>> THEN i
            ELSE ScanTpdf(tpdf, size, qname, i + 1, nullpage)
       ELSE IF tpdf[i].name = qname THEN i
       ELSE ScanTpdf(tpdf, size, qname, i + 1, nullpage)

\* while (parent) { switch (parent->nodetype) ... parent = parent->parent; }
RECURSIVE WalkParents(_, _, _, _, _)
WalkParents(nodes, m, parent, qname, nullpage) ==
  IF parent = NullId THEN Lookup("null", NoTpdf, EmptyTpdf)
  ELSE
    LET n == nodes[parent] IN
    IF n.nodetype \in {"container", "list", "grouping"}
    THEN With(ScanTpdf(n.tpdf, n.tpdf_size, qname, 1, nullpage), LAMBDA i :
           IF i > 0 THEN Lookup("found", NodeTpdfRef(m, parent, i), n.tpdf[i])
           ELSE IF i < 0 THEN Lookup("crash", NoTpdf, EmptyTpdf)
           ELSE WalkParents(nodes, m, n.parent, qname, nullpage))
    ELSE WalkParents(nodes, m, n.parent, qname, nullpage)

\* for (i = 0; i < module->imp_size; i++) if (!strncmp(imp[i].prefix, name, len)
\* && !imp[i].prefix[len]): the index (1-based), 0 for none, -1 for a trap on
\* an import whose prefix is NULL
RECURSIVE ScanImports(_, _, _, _, _, _)
ScanImports(imp, size, name, len, i, nullpage) ==
  IF i > size THEN 0
  ELSE IF imp[i].prefix = NoAttr
       THEN IF nullpage = "trap" THEN -1
            ELSE ScanImports(imp, size, name, len, i + 1, nullpage)
       ELSE IF PrefixIs(name, len, imp[i].prefix) THEN i
       ELSE ScanImports(imp, size, name, len, i + 1, nullpage)

\* the typedefs of the included submodules, in include order
RECURSIVE ScanSubmodules(_, _, _, _, _)
ScanSubmodules(hp, inc, size, qname, i) ==
  IF i > size THEN Lookup("null", NoTpdf, EmptyTpdf)
  ELSE
    LET sub == hp[inc[i].submodule] IN
    With(ScanTpdf(sub.tpdf, sub.tpdf_size, qname, 1, "trap"), LAMBDA j :
      IF j > 0 THEN Lookup("found", ModTpdfRef(inc[i].submodule, j), sub.tpdf[j])
      ELSE ScanSubmodules(hp, inc, size, qname, i + 1))

\* search in top level typedefs, then in submodules
SearchModule(hp, m, qname) ==
  With(ScanTpdf(hp[m].tpdf, hp[m].tpdf_size, qname, 1, "trap"), LAMBDA i :
    IF i > 0 THEN Lookup("found", ModTpdfRef(m, i), hp[m].tpdf[i])
    ELSE ScanSubmodules(hp, hp[m].inc, hp[m].inc_size, qname, 1))

FindSuperiorType(name, hp, m, parent, nullpage) ==
  LET colon == StrChr(name, ":")
      qname == IF colon = 0 THEN name ELSE Tail_(name, colon)
      len0 == IF colon = 0 THEN 0 ELSE colon - 1
      \* prefix refers to the current module, ignore it
      prefix_len == IF colon # 0 /\ PrefixIs(name, len0, hp[m].prefix)
                    THEN 0 ELSE len0
  IN
  With(IF colon = 0 THEN ScanBuiltin(name, 1) ELSE 0, LAMBDA b :
    IF b > 0 THEN Lookup("found", BuiltinRef(LyTypes[b]), BuiltinTpdf(LyTypes[b]))
    ELSE IF prefix_len = 0 /\ parent # NullId
    THEN With(WalkParents(hp[m].nodes, m, parent, qname, nullpage), LAMBDA w :
           IF w.st = "null" THEN SearchModule(hp, m, qname) ELSE w)
    ELSE IF prefix_len # 0
    THEN With(ScanImports(hp[m].imp, hp[m].imp_size, name, prefix_len, 1, nullpage),
              LAMBDA i :
           IF i > 0 THEN SearchModule(hp, hp[m].imp[i].module, qname)
           ELSE IF i < 0 THEN Lookup("crash", NoTpdf, EmptyTpdf)
           ELSE Lookup("null", NoTpdf, EmptyTpdf))
    ELSE SearchModule(hp, m, qname))

\* --------------------------------------------------------- find_base_ident
IdentAt(hp, r) == hp[r.m].ident[r.i]

\* while (base_iter) { append ident to the end of base_iter->der, or, when
\* that list is empty, store the new entry in ident->base->der; then
\* base_iter = base_iter->base; }
RECURSIVE AddDerived(_, _, _)
AddDerived(hp, ident, base_iter) ==
  IF base_iter = NoIdent THEN hp
  ELSE
    LET der == IdentAt(hp, base_iter).der
        first == IdentAt(hp, ident).base
    IN With(IF der # <<>>
            THEN [hp EXCEPT ![base_iter.m].ident[base_iter.i].der = Append(der, ident)]
            ELSE [hp EXCEPT ![first.m].ident[first.i].der = <<ident>>],
            LAMBDA hp1 : AddDerived(hp1, ident, IdentAt(hp1, base_iter).base))

\* for (i = 0; i < module->ident_size; i++) if (!strcmp(basename, ident[i].name))
RECURSIVE ScanIdent(_, _, _, _)
ScanIdent(idents, size, basename, i) ==
  IF i > size THEN 0
  ELSE IF idents[i].name = basename THEN i
  ELSE ScanIdent(idents, size, basename, i + 1)

\* a lookup that also records the search for a type in the derived list of
\* the identity found
FindBaseIdentSubRecording(hp, mod, ident, basename) ==
  With(ScanIdent(hp[mod].ident, hp[mod].ident_size, basename, 1), LAMBDA i :
    IF i = 0 THEN [hp |-> hp, res |-> NoIdent]
    ELSE IF ident = NoIdent
    THEN [hp |-> [hp EXCEPT ![mod].ident[i].der = Append(@, NoIdent)],
          res |-> [m |-> mod, i |-> i]]
    ELSE [hp |-> AddDerived([hp EXCEPT ![ident.m].ident[ident.i].base = [m |-> mod, i |-> i]],
                            ident, [m |-> mod, i |-> i]),
          res |-> [m |-> mod, i |-> i]])

\* find_base_ident_sub: [hp, res]; with ident = NoIdent nothing is modified
FindBaseIdentSub(hp, mod, ident, basename) ==
  With(ScanIdent(hp[mod].ident, hp[mod].ident_size, basename, 1), LAMBDA i :
    IF i = 0 THEN [hp |-> hp, res |-> NoIdent]
    ELSE IF ident = NoIdent THEN [hp |-> hp, res |-> [m |-> mod, i |-> i]]
    ELSE [hp |-> AddDerived([hp EXCEPT ![ident.m].ident[ident.i].base = [m |-> mod, i |-> i]],
                            ident, [m |-> mod, i |-> i]),
          res |-> [m |-> mod, i |-> i]])

\* the submodules searched in include order, the first hit returned
RECURSIVE IdentInSubmodules(_, _, _, _, _)
IdentInSubmodules(hp, m, ident, name, i) ==
  IF i > hp[m].inc_size THEN [hp |-> hp, res |-> NoIdent]
  ELSE With(FindBaseIdentSub(hp, hp[m].inc[i].submodule, ident, name), LAMBDA r :
         IF r.res # NoIdent THEN r ELSE IdentInSubmodules(hp, m, ident, name, i + 1))

\* find_base_ident: [hp, res, code, st]; node is the <base> element
FindBaseIdent(hp, m, ident, node, nullpage) ==
  LET basename == node.arg
      colon == IF basename = NoAttr THEN 0 ELSE StrChr(basename, ":")
      name == IF colon = 0 THEN basename ELSE Tail_(basename, colon)
      len0 == IF colon = 0 THEN 0 ELSE colon - 1
      prefix_len == IF colon # 0 /\ PrefixIs(basename, len0, hp[m].prefix)
                    THEN 0 ELSE len0
      \* search in the identified module
      search(target) ==
        With(FindBaseIdentSub(hp, target, ident, name), LAMBDA own :
          IF own.res = NoIdent
          THEN [hp |-> hp, res |-> NoIdent, code |-> "VE_INARG", st |-> "fail"]
          ELSE [hp |-> own.hp, res |-> own.res, code |-> "none", st |-> "ok"])
  IN
  IF basename = NoAttr
  THEN [hp |-> hp, res |-> NoIdent, code |-> "VE_MISSARG", st |-> "fail"]
  ELSE IF prefix_len # 0
  THEN With(ScanImports(hp[m].imp, hp[m].imp_size, basename, prefix_len, 1, nullpage),
            LAMBDA imp :
         IF imp < 0 THEN [hp |-> hp, res |-> NoIdent, code |-> "none", st |-> "crash"]
         ELSE IF imp = 0
         THEN [hp |-> hp, res |-> NoIdent, code |-> "VE_INPREFIX", st |-> "fail"]
         ELSE search(hp[m].imp[imp].module))
  ELSE With(IdentInSubmodules(hp, m, ident, name, 1), LAMBDA sub :
         IF sub.res # NoIdent
         THEN [hp |-> sub.hp, res |-> sub.res, code |-> "none", st |-> "ok"]
         ELSE search(m))

\* ------------------------------------------------------------ read_yin_text
\* the content of the <text> child, NULL (NoAttr) when there is none
ReadYinText(node) ==
  IF node.kids = <<>> \/ node.kids[1].name # "text" THEN NoAttr
  ELSE node.kids[1].arg

\* ---------------------------------------------------------- read_yin_common
ConfigMask == {"CONFIG_W", "CONFIG_R"}

StatusMask == {"STATUS_CURR", "STATUS_DEPRC", "STATUS_OBSLT"}

IsSpace(c) == c \in {" ", "\t", "\n"}

\* the loop over the children: description, reference, status and (with ext)
\* config are consumed, every other child stays in the element.
\* acc = [flags, dsc, ref, rest, st]
RECURSIVE CommonKids(_, _, _, _, _)
CommonKids(kids, i, ext, acc, nullpage) ==
  IF i > Len(kids) \/ acc.st # "ok" THEN acc
  ELSE
    LET sub == kids[i]
        value == sub.arg
        next ==
          IF sub.name = "description"
          THEN [acc EXCEPT !.dsc = ReadYinText(sub)]
          ELSE IF sub.name = "reference"
          THEN [acc EXCEPT !.ref = ReadYinText(sub)]
          ELSE IF sub.name = "status"
          THEN IF value = NoAttr /\ nullpage = "trap"
               THEN [acc EXCEPT !.st = "crash"]
               ELSE IF value = <<"current">>
               THEN [acc EXCEPT !.flags = @ \cup {"STATUS_CURR"}]
               ELSE IF value = <<"deprecated">>
               THEN [acc EXCEPT !.flags = @ \cup {"STATUS_DEPRC"}]
               ELSE IF value = <<"obsolete">>
               THEN [acc EXCEPT !.flags = @ \cup {"STATUS_OBSLT"}]
               ELSE acc
          ELSE IF ext /\ sub.name = "config"
          THEN IF value = NoAttr /\ nullpage = "trap"
               THEN [acc EXCEPT !.st = "crash"]
               ELSE IF value = <<"false">>
               THEN [acc EXCEPT !.flags = @ \cup {"CONFIG_R"}]
               \* else if (!strcmp(value, "false")): the same test again, so
               \* the branch setting LY_NODE_CONFIG_W is never taken
               ELSE acc
          ELSE [acc EXCEPT !.rest = Append(@, sub)]
    IN CommonKids(kids, i + 1, ext, next, nullpage)

\* read_yin_common: [st, code, name, flags, dsc, ref, rest]; rest are the
\* children left in the element.  parentflags is parent->flags, hasparent
\* tells whether parent is non-NULL.
ReadYinCommon(hasparent, parentflags, xmlnode, ext, nullpage) ==
  LET value == xmlnode.arg
      acc0 == [flags |-> {}, dsc |-> NoAttr, ref |-> NoAttr, rest |-> <<>>, st |-> "ok"]
      inherit(flags) ==
        IF ext /\ flags \cap ConfigMask = {}
        THEN IF hasparent
             THEN flags \cup (parentflags \cap ConfigMask)
             ELSE flags \cup {"CONFIG_W"}
        ELSE flags
  IN
  With(CommonKids(xmlnode.kids, 1, ext, acc0, nullpage), LAMBDA acc :
    [st |-> \* strlen(value) with value NULL
            IF value = NoAttr /\ nullpage = "trap" THEN "crash"
            ELSE IF value = NoAttr \/ value = <<>> THEN "fail"
            ELSE acc.st,
     code |-> IF value = NoAttr /\ nullpage = "trap" THEN "none"
              ELSE IF value = NoAttr \/ value = <<>> THEN "VE_MISSARG"
              ELSE "none",
     name |-> value, flags |-> inherit(acc.flags),
     dsc |-> acc.dsc, ref |-> acc.ref, rest |-> acc.rest])

\* ------------------------------------------------------------------ strtol
\* A long is wider than the integers of the checker, so a long is held as
\* [cls, n]: cls "in" when it lies in the int32 range (n is the value),
\* "above" when it is greater than INT32_MAX, "below" when less than INT32_MIN.
InRange(n) == [cls |-> "in", n |-> n]

INT32_MIN == (0 - INT32_MAX) - 1

\* the decimal numerals the inputs use: k is "small" (the magnitude is n),
\* "edge" (the magnitude is 2^31) or "huge" (greater than 2^31)
Numeral ==
  ("0" :> [k |-> "small", n |-> 0]) @@ ("1" :> [k |-> "small", n |-> 1])
  @@ ("2" :> [k |-> "small", n |-> 2]) @@ ("5" :> [k |-> "small", n |-> 5])
  @@ ("2147483646" :> [k |-> "small", n |-> INT32_MAX - 1])
  @@ ("2147483647" :> [k |-> "small", n |-> INT32_MAX])
  @@ ("2147483648" :> [k |-> "edge", n |-> 0])
  @@ ("2147483649" :> [k |-> "huge", n |-> 0])

Digits(p) == IF p \in DOMAIN Numeral THEN Numeral[p] ELSE [k |-> "small", n |-> 0]

\* strtol(value, NULL, 10) for a long of `bits` bits: an optional sign, then
\* the digits (0 when there are none); what follows the digits is ignored; a
\* value out of the range of long is clamped to LONG_MAX or LONG_MIN
StrToL(value, bits) ==
  LET neg == value # <<>> /\ value[1] = "-"
      body == IF neg THEN Tail_(value, 1) ELSE value
  IN
  With(IF body = <<>> THEN [k |-> "small", n |-> 0] ELSE Digits(body[1]), LAMBDA mag :
    IF mag.k = "small" THEN InRange(IF neg THEN 0 - mag.n ELSE mag.n)
    ELSE IF neg
    THEN IF mag.k = "edge" \/ bits = 32 THEN InRange(INT32_MIN)
         ELSE [cls |-> "below", n |-> 0]
    ELSE IF bits = 32 THEN InRange(INT32_MAX)
         ELSE [cls |-> "above", n |-> 0])

\* ------------------------------------------------------------ fill_yin_type
\* the int64_t v of fill_yin_type: one more than an int32, so at most 2^31,
\* which is held as ov
Int64(n) == [ov |-> FALSE, n |-> n]

PlusOne(n) == IF n = INT32_MAX THEN [ov |-> TRUE, n |-> 0] ELSE Int64(n + 1)

\* value > v
Greater(value, v) == ~v.ov /\ value > v.n

\* compares the name with the enum just before it only
DupNameAdjacent(list, name, j) == list # <<>> /\ list[Len(list)].name = name

RECURSIVE DupName(_, _, _)
DupName(list, name, j) ==
  IF j > Len(list) THEN FALSE
  ELSE list[j].name = name \/ DupName(list, name, j + 1)

RECURSIVE DupValue(_, _, _)
DupValue(list, value, j) ==
  IF j > Len(list) THEN FALSE
  ELSE list[j].value = value \/ DupValue(list, value, j + 1)

\* for (i = v = 0; root.child; i++): one turn per <enum> element.
\* acc = [list, v, st, code]
RECURSIVE EnumLoop(_, _, _, _)
EnumLoop(enums, i, acc, bld) ==
  IF i > Len(enums) \/ acc.st # "ok" THEN acc
  ELSE
    LET err(code) == [acc EXCEPT !.st = "fail", !.code = code]
        \* node && !strcmp(node->name, "value"): the value is read with strtol
        explicit(rc, node, v_) ==
          IF node.arg = NoAttr /\ bld.nullpage = "trap"
          THEN [acc EXCEPT !.st = "crash"]
          \* range check
          ELSE IF v_.cls # "in" THEN err("VE_INARG")
          \* keep the highest enum value for automatic increment
          ELSE IF Greater(v_.n, acc.v)
          THEN [acc EXCEPT !.list = Append(@, [name |-> rc.name, value |-> v_.n,
                                               flags |-> rc.flags]),
                           !.v = PlusOne(v_.n)]
          \* check that the value is unique
          ELSE IF DupValue(acc.list, v_.n, 1) THEN err("VE_ENUM_DUPVAL")
          ELSE [acc EXCEPT !.list = Append(@, [name |-> rc.name, value |-> v_.n,
                                               flags |-> rc.flags])]
        step(rc) ==
          IF rc.st # "ok" THEN [acc EXCEPT !.st = rc.st, !.code = rc.code]
          \* no leading or trailing whitespace
          ELSE IF IsSpace(rc.name[1]) \/ IsSpace(rc.name[Len(rc.name)])
          THEN err("VE_ENUM_WS")
          ELSE IF DupName(acc.list, rc.name, 1) THEN err("VE_ENUM_DUPNAME")
          ELSE IF rc.rest # <<>> /\ rc.rest[1].name = "value"
          THEN explicit(rc, rc.rest[1],
                        StrToL(IF rc.rest[1].arg = NoAttr THEN <<>> ELSE rc.rest[1].arg,
                               bld.longbits))
          \* assign value automatically
          ELSE IF acc.v.ov THEN err("VE_INARG")
          ELSE [acc EXCEPT !.list = Append(@, [name |-> rc.name, value |-> acc.v.n,
                                               flags |-> rc.flags]),
                           !.v = PlusOne(acc.v.n)]
    IN EnumLoop(enums, i + 1,
                step(ReadYinCommon(FALSE, {}, enums[i], FALSE, bld.nullpage)), bld)

SelectKids(kids, names) == SelectSeq(kids, LAMBDA e : e.name \in names)

RejectKids(kids, names) == SelectSeq(kids, LAMBDA e : e.name \notin names)

\* case LY_TYPE_ENUM; derder is type->der->type.der
FillEnum(yin, type, derder, bld) ==
  LET enums == SelectKids(yin.kids, {"enum"})
      acc0 == [list |-> <<>>, v |-> Int64(0), st |-> "ok", code |-> "none"]
  IN
  IF RejectKids(yin.kids, {"enum"}) # <<>>
  THEN [st |-> "fail", code |-> "VE_INSTMT", type |-> type]
  ELSE IF enums = <<>>
  THEN \* a derived type with no enum specified, or a missing enum statement
       IF derder # NoTpdf
       THEN [st |-> "ok", code |-> "none", type |-> type]
       ELSE [st |-> "fail", code |-> "VE_MISSSTMT2", type |-> type]
  ELSE With(EnumLoop(enums, 1, acc0, bld), LAMBDA loop :
         [st |-> loop.st, code |-> loop.code,
          type |-> [type EXCEPT !.enums = loop.list, !.count = Len(loop.list)]])

\* case LY_TYPE_IDENT: [st, code, type, hp], hp as find_base_ident leaves it
FillIdentref(hp, m, yin, type, bld) ==
  IF yin.kids = <<>>
  THEN [st |-> "fail", code |-> "VE_MISSSTMT2", type |-> type, hp |-> hp]
  ELSE IF yin.kids[1].name # "base"
  THEN [st |-> "fail", code |-> "VE_INSTMT", type |-> type, hp |-> hp]
  ELSE IF Len(yin.kids) > 1
  THEN [st |-> "fail", code |-> "VE_INSTMT", type |-> type, hp |-> hp]
  ELSE With(FindBaseIdent(hp, m, NoIdent, yin.kids[1], bld.nullpage), LAMBDA r :
         [st |-> r.st, code |-> r.code, type |-> [type EXCEPT !.ident = r.res],
          hp |-> r.hp])

\* fill_yin_type: [st, code, type, hp]; type is the struct ly_type as it is
\* left
FillYinType(hp, m, parent, yin, type0, bld) ==
  LET value == yin.arg
      delim == IF value = NoAttr THEN 0 ELSE StrChr(value, ":")
      t1 == IF delim # 0 THEN [type0 EXCEPT !.prefix = SubSeq(value, 1, delim - 1)]
            ELSE type0
      \* type->der = sup; type->base = type->der->type.base; switch (type->base)
      derive(sup, t2) ==
        IF t2.base = "enumeration"
        THEN With(FillEnum(yin, t2, sup.tp.type.der, bld), LAMBDA e :
               [st |-> e.st, code |-> e.code, type |-> e.type, hp |-> hp])
        ELSE IF t2.base = "identityref" THEN FillIdentref(hp, m, yin, t2, bld)
        ELSE [st |-> "ok", code |-> "none", type |-> t2, hp |-> hp]
  IN
  IF value = NoAttr
  THEN [st |-> "fail", code |-> "VE_MISSARG", type |-> type0, hp |-> hp]
  ELSE With(FindSuperiorType(value, hp, m, parent, bld.nullpage), LAMBDA sup :
         IF sup.st = "crash"
         THEN [st |-> "crash", code |-> "none", type |-> t1, hp |-> hp]
         ELSE IF sup.st = "null"
         THEN [st |-> "fail", code |-> "VE_INARG", type |-> [t1 EXCEPT !.der = NoTpdf],
               hp |-> hp]
         ELSE derive(sup, [t1 EXCEPT !.der = sup.ref, !.base = sup.tp.type.base]))

\* ------------------------------------------------------------- the context
\* the revision dates the inputs use, oldest first
Dates == << <<"2015-01-01">>, <<"2016-01-01">> >>

\* the place of a date in calendar order, 0 for no date
DateRank(d) == IF \E k \in 1..Len(Dates) : Dates[k] = d
               THEN CHOOSE k \in 1..Len(Dates) : Dates[k] = d
               ELSE 0

RECURSIVE NewestFrom(_, _, _)
NewestFrom(rev, size, i) ==
  IF i > size THEN 0
  ELSE LET r == NewestFrom(rev, size, i + 1)
           d == DateRank(rev[i].date)
       IN IF d > r THEN d ELSE r

\* the rank of the newest revision of a module, 0 when it has none
Newest(mod) == NewestFrom(mod.rev, mod.rev_size, 1)

\* ly_ctx_get_module(ctx, name, revision): the registered module of that name
\* and revision; with revision NULL the newest one of that name; NULL when
\* there is none (no search directory is set, so nothing is loaded from disk)
LyCtxGetModule(c, hp, name, revision) ==
  LET cand == {j \in 1..c.used : /\ j <= Len(c.list)
                                 /\ c.list[j] # NULL
                                 /\ hp[c.list[j]].name = name
                                 /\ \/ revision = NoAttr
                                    \/ /\ hp[c.list[j]].rev_size > 0
                                       /\ Newest(hp[c.list[j]]) = DateRank(revision)}
      best == {j \in cand : \A k \in cand :
                 \/ Newest(hp[c.list[k]]) < Newest(hp[c.list[j]])
                 \/ (Newest(hp[c.list[k]]) = Newest(hp[c.list[j]]) /\ j <= k)}
  IN IF cand = {} THEN NULL ELSE c.list[CHOOSE j \in best : TRUE]

\* ly_ctx_get_submodule(module, name, revision): a submodule is read from the
\* search directory, and none is set
LyCtxGetSubmodule(hp, m, name, revision) == NULL

\* --------------------------------------------------------- fill_yin_typedef
\* where a struct ly_tpdf lives: slot i of module m's table (path NullId) or
\* of the table of the node at path
GetTpdf(hp, m, path, i) ==
  IF path = NullId THEN hp[m].tpdf[i] ELSE hp[m].nodes[path].tpdf[i]

SetTpdf(hp, m, path, i, tp) ==
  IF path = NullId THEN [hp EXCEPT ![m].tpdf[i] = tp]
  ELSE [hp EXCEPT ![m].nodes[path].tpdf[i] = tp]

\* the loop over the children of <typedef>, r checked after each child.
\* acc = [hp, st, code]
RECURSIVE TypedefKids(_, _, _, _, _, _, _, _)
TypedefKids(kids, k, m, parent, path, i, acc, bld) ==
  IF k > Len(kids) \/ acc.st # "ok" THEN acc
  ELSE
    LET node == kids[k]
        value == node.arg
        flag(tp, f) == [acc EXCEPT !.hp = SetTpdf(acc.hp, m, path, i,
                                                  [tp EXCEPT !.flags = @ \cup {f}])]
        step(tp) ==
          IF node.name = "type"
          THEN With(FillYinType(acc.hp, m, parent, node, tp.type, bld), LAMBDA ft :
                 [hp |-> SetTpdf(ft.hp, m, path, i, [tp EXCEPT !.type = ft.type]),
                  st |-> ft.st, code |-> ft.code])
          ELSE IF node.name \in {"description", "reference"}
          THEN IF ReadYinText(node) = NoAttr THEN [acc EXCEPT !.st = "fail"] ELSE acc
          ELSE IF node.name = "status"
          THEN IF value = NoAttr /\ bld.nullpage = "trap"
               THEN [acc EXCEPT !.st = "crash"]
               ELSE IF value = <<"current">> THEN flag(tp, "STATUS_CURR")
               ELSE IF value = <<"deprecated">> THEN flag(tp, "STATUS_DEPRC")
               ELSE IF value = <<"obsolete">> THEN flag(tp, "STATUS_OBSLT")
               ELSE [acc EXCEPT !.st = "fail", !.code = "VE_INARG"]
          ELSE acc
    IN TypedefKids(kids, k + 1, m, parent, path, i,
                   step(GetTpdf(acc.hp, m, path, i)), bld)

\* fill_yin_typedef(module, parent, yin, &table[i]): [hp, st, code].  The
\* name is stored in the slot before the children are read.
FillYinTypedef(hp, m, parent, path, i, yin, bld) ==
  LET value == yin.arg
      name == IF value = NoAttr THEN <<>> ELSE value
      hp1 == SetTpdf(hp, m, path, i, [GetTpdf(hp, m, path, i) EXCEPT !.name = name])
  IN
  \* strlen(value) with value NULL
  IF value = NoAttr /\ bld.nullpage = "trap"
  THEN [hp |-> hp, st |-> "crash", code |-> "none"]
  ELSE With(TypedefKids(yin.kids, 1, m, parent, path, i,
                        [hp |-> hp1, st |-> "ok", code |-> "none"], bld), LAMBDA r :
         IF r.st # "ok" THEN r
         ELSE IF GetTpdf(r.hp, m, path, i).type.der = NoTpdf
         THEN [r EXCEPT !.st = "fail", !.code = "VE_MISSSTMT2"]
         ELSE r)

\* -------------------------------------------------------- fill_yin_identity
\* the loop over the children read_yin_common left.  acc = [hp, st, code]
RECURSIVE IdentityKids(_, _, _, _, _, _)
IdentityKids(kids, k, m, i, acc, bld) ==
  IF k > Len(kids) \/ acc.st # "ok" THEN acc
  ELSE
    LET node == kids[k]
        ident == [m |-> m, i |-> i]
        next ==
          IF node.name = "base"
          THEN IF IdentAt(acc.hp, ident).base # NoIdent
               THEN [acc EXCEPT !.st = "fail", !.code = "VE_TOOMANY"]
               ELSE With(FindBaseIdent(acc.hp, m, ident, node, bld.nullpage), LAMBDA fb :
                      [hp |-> fb.hp, st |-> fb.st, code |-> fb.code])
          ELSE [acc EXCEPT !.st = "fail", !.code = "VE_INSTMT"]
    IN IdentityKids(kids, k + 1, m, i, next, bld)

\* fill_yin_identity(module, yin, &module->ident[i]): [hp, st, code]
FillYinIdentity(hp, m, i, yin, bld) ==
  With(ReadYinCommon(FALSE, {}, yin, FALSE, bld.nullpage), LAMBDA rc :
    With([hp EXCEPT ![m].ident[i].name = rc.name, ![m].ident[i].flags = rc.flags],
         LAMBDA hp1 :
      IF rc.st # "ok" THEN [hp |-> hp1, st |-> rc.st, code |-> rc.code]
      ELSE IdentityKids(rc.rest, 1, m, i, [hp |-> hp1, st |-> "ok", code |-> "none"], bld)))

\* ---------------------------------------------------------- fill_yin_import
EmptyImport == [module |-> NULL, prefix |-> NoAttr, rev |-> <<>>]

\* the loop over the children of <import>.  acc = [imp, st, code]
RECURSIVE ImportKids(_, _, _, _)
ImportKids(kids, k, acc, bld) ==
  IF k > Len(kids) \/ acc.st # "ok" THEN acc
  ELSE
    LET child == kids[k]
        value == child.arg
        next ==
          IF child.name = "prefix"
          THEN IF value = NoAttr
               THEN IF bld.nullpage = "trap" THEN [acc EXCEPT !.st = "crash"]
                    ELSE [acc EXCEPT !.imp.prefix = <<>>]
               ELSE [acc EXCEPT !.imp.prefix = value]
          ELSE IF child.name = "revision-date"
          THEN IF value = NoAttr
               THEN [acc EXCEPT !.st = "fail", !.code = "VE_MISSARG"]
               ELSE [acc EXCEPT !.imp.rev = value]
          ELSE [acc EXCEPT !.st = "fail", !.code = "VE_INSTMT"]
    IN ImportKids(kids, k + 1, next, bld)

\* fill_yin_import(module, yin, &module->imp[i]): [hp, st, code]
FillYinImport(c, hp, m, i, yin, bld) ==
  With(ImportKids(yin.kids, 1, [imp |-> EmptyImport, st |-> "ok", code |-> "none"], bld),
       LAMBDA r :
    IF r.st # "ok"
    THEN [hp |-> [hp EXCEPT ![m].imp[i] = r.imp], st |-> r.st, code |-> r.code]
    ELSE With(LyCtxGetModule(c, hp, yin.arg,
                             IF r.imp.rev # <<>> THEN r.imp.rev ELSE NoAttr),
              LAMBDA target :
           [hp |-> [hp EXCEPT ![m].imp[i] = [r.imp EXCEPT !.module = target]],
            st |-> IF target = NULL THEN "fail" ELSE "ok",
            code |-> IF target = NULL THEN "LY_EVALID" ELSE "none"]))

\* --------------------------------------------------------- fill_yin_include
EmptyInclude == [submodule |-> NULL, rev |-> <<>>]

RECURSIVE IncludeKids(_, _, _)
IncludeKids(kids, k, acc) ==
  IF k > Len(kids) \/ acc.st # "ok" THEN acc
  ELSE
    LET child == kids[k]
        next ==
          IF child.name = "revision-date"
          THEN IF child.arg = NoAttr
               THEN [acc EXCEPT !.st = "fail", !.code = "VE_MISSARG"]
               ELSE [acc EXCEPT !.inc.rev = child.arg]
          ELSE [acc EXCEPT !.st = "fail", !.code = "VE_INSTMT"]
    IN IncludeKids(kids, k + 1, next)

\* fill_yin_include(module, yin, &module->inc[i]): [hp, st, code]
FillYinInclude(hp, m, i, yin) ==
  With(IncludeKids(yin.kids, 1, [inc |-> EmptyInclude, st |-> "ok", code |-> "none"]),
       LAMBDA r :
    IF r.st # "ok"
    THEN [hp |-> [hp EXCEPT ![m].inc[i] = r.inc], st |-> r.st, code |-> r.code]
    ELSE With(LyCtxGetSubmodule(hp, m, yin.arg,
                                IF r.inc.rev # <<>> THEN r.inc.rev ELSE NoAttr),
              LAMBDA sub :
           [hp |-> [hp EXCEPT ![m].inc[i] = [r.inc EXCEPT !.submodule = sub]],
            st |-> IF sub = NULL THEN "fail" ELSE "ok",
            code |-> IF sub = NULL THEN "LY_EVALID" ELSE "none"]))

\* ------------------------------------------------------- schema node store
IsPrefix(p, q) == Len(p) <= Len(q) /\ SubSeq(q, 1, Len(p)) = p

\* the node store with the node at path p added or replaced
PutNode(nodes, p, n) ==
  [q \in DOMAIN nodes \cup {p} |-> IF q = p THEN n ELSE nodes[q]]

\* ly_mnode_addchild(parent, child): child is appended to the half-ring of
\* parent's children; nothing is done for a NULL parent
LyMnodeAddchild(nodes, parent, child) ==
  IF parent = NullId THEN nodes
  ELSE IF nodes[parent].child = NullId
  THEN [nodes EXCEPT ![parent].child = child, ![child].parent = parent]
  ELSE LET first == nodes[parent].child
           lastn == nodes[first].prev
       IN [[[nodes EXCEPT ![lastn].next = child]
                   EXCEPT ![child].prev = lastn, ![child].parent = parent]
                   EXCEPT ![first].prev = child]

\* ly_mnode_free(node): the node, its typedef table and its children are
\* released.  The node is not taken out of the child list of its parent: a
\* node freed while linked stays there as a pointer to a released block.
LyMnodeFree(nodes, p) ==
  [q \in {x \in DOMAIN nodes : ~IsPrefix(p, x)} |-> nodes[q]]

\* a node of the subtree at p points, as its first child or its next sibling,
\* at a node that is released already
Dangling(nodes, p) ==
  \E q \in DOMAIN nodes :
    /\ IsPrefix(p, q)
    /\ \/ nodes[q].child # NullId /\ nodes[q].child \notin DOMAIN nodes
       \/ nodes[q].next # NullId /\ nodes[q].next \notin DOMAIN nodes

\* error: ly_mnode_free(retval) of a reader whose result so far is r.  Walking
\* the children releases a node that is released already when one of them
\* was freed while linked: the allocator aborts or goes on, by the build.
FreeNode(r, m, path, bld) ==
  IF r.st = "fail" /\ Dangling(r.hp[m].nodes, path) /\ bld.refree = "abort"
  THEN [r EXCEPT !.st = "crash", !.code = "none"]
  ELSE [r EXCEPT !.hp[m].nodes = LyMnodeFree(@, path)]

\* the statements moved aside to be processed last
DataStmts == {"container", "leaf-list", "leaf", "list", "choice", "uses", "grouping"}

\* the children read_yin_common leaves in the element, by position
RECURSIVE RestIdx(_, _, _)
RestIdx(kids, i, ext) ==
  IF i > Len(kids) THEN <<>>
  ELSE IF \/ kids[i].name \in {"description", "reference", "status"}
          \/ (ext /\ kids[i].name = "config")
       THEN RestIdx(kids, i + 1, ext)
       ELSE <<i>> \o RestIdx(kids, i + 1, ext)

\* the types of a leaf or leaf-list: every <type> child is filled into the
\* same struct ly_type.  acc = [type, st, code, hp]
RECURSIVE LeafTypes(_, _, _, _, _, _, _)
LeafTypes(hp, m, parent, kids, k, acc, bld) ==
  IF k > Len(kids) \/ acc.st # "ok" THEN acc
  ELSE LeafTypes(hp, m, parent, kids, k + 1,
                 IF kids[k].name = "type"
                 THEN FillYinType(acc.hp, m, parent, kids[k], acc.type, bld)
                 ELSE acc,
                 bld)

\* read_yin_leaf and read_yin_leaflist: [hp, st, code]; on success the node
\* is in the store of module m at `path` and linked under parent
ReadYinLeaf(hp, m, parent, node, path, nodetype, bld) ==
  LET leaf(rc, ty) == [NewNode(path, nodetype) EXCEPT !.module = m, !.name = rc.name,
                                                       !.flags = rc.flags, !.type = ty.type]
      types(rc) == LeafTypes(hp, m, parent, rc.rest, 1,
                             [type |-> EmptyType, st |-> "ok", code |-> "none",
                              hp |-> hp], bld)
  IN
  With(ReadYinCommon(parent # NullId,
                     IF parent = NullId THEN {} ELSE hp[m].nodes[parent].flags,
                     node, TRUE, bld.nullpage), LAMBDA rc :
    IF rc.st # "ok" THEN [hp |-> hp, st |-> rc.st, code |-> rc.code]
    ELSE With(types(rc), LAMBDA ty :
           IF ty.st # "ok" THEN [hp |-> ty.hp, st |-> ty.st, code |-> ty.code]
           ELSE [hp |-> [ty.hp EXCEPT ![m].nodes =
                           LyMnodeAddchild(PutNode(@, path, leaf(rc, ty)), parent, path)],
                 st |-> "ok", code |-> "none"]))

\* middle part of a container or grouping: the typedefs, in source order.
\* c is c_tpdf; on failure tpdf_size is set to the slots touched.
\* acc = [hp, st, code]
RECURSIVE ScopeTypedefs(_, _, _, _, _, _, _, _)
ScopeTypedefs(kids, idx, k, c, m, path, acc, bld) ==
  IF k > Len(idx) \/ acc.st # "ok" THEN acc
  ELSE
    LET sub == kids[idx[k]]
        \* if (r) { tpdf_size = c_tpdf; goto error; }
        check(r) == IF r.st = "ok" THEN r
                    ELSE [r EXCEPT !.hp[m].nodes[path].tpdf_size = c + 1]
    IN IF sub.name = "typedef"
       THEN ScopeTypedefs(kids, idx, k + 1, c + 1, m, path,
                          check(FillYinTypedef(acc.hp, m, path, path, c + 1, sub, bld)),
                          bld)
       ELSE ScopeTypedefs(kids, idx, k + 1, c, m, path, acc, bld)

RECURSIVE ReadNode(_, _, _, _, _, _)
RECURSIVE ScopeData(_, _, _, _, _, _, _)

\* last part of a container or grouping: the data nodes, in source order
ScopeData(kids, idx, k, m, path, acc, bld) ==
  IF k > Len(idx) \/ acc.st # "ok" THEN acc
  ELSE
    LET sub == kids[idx[k]] IN
    IF sub.name \in DataStmts
    THEN ScopeData(kids, idx, k + 1, m, path,
                   ReadNode(acc.hp, m, path, sub, Append(path, idx[k]), bld), bld)
    ELSE ScopeData(kids, idx, k + 1, m, path, acc, bld)

\* read_yin_container and read_yin_grouping: [hp, st, code]
ReadYinScope(hp, m, parent, node, path, nodetype, bld) ==
  LET ext == nodetype = "container"
      idx == RestIdx(node.kids, 1, ext)
      c_tpdf == Len(SelectSeq(idx, LAMBDA i : node.kids[i].name = "typedef"))
      retval(rc) == [NewNode(path, nodetype) EXCEPT
                       !.module = m, !.name = rc.name, !.flags = rc.flags,
                       !.tpdf_size = c_tpdf, !.tpdf = [i \in 1..c_tpdf |-> EmptyTpdf]]
      \* error: ly_mnode_free(retval); otherwise ly_mnode_addchild(parent, retval)
      finish(r) == IF r.st # "ok"
                   THEN FreeNode(r, m, path, bld)
                   ELSE [r EXCEPT !.hp[m].nodes = LyMnodeAddchild(@, parent, path)]
  IN
  With(ReadYinCommon(parent # NullId,
                     IF parent = NullId THEN {} ELSE hp[m].nodes[parent].flags,
                     node, ext, bld.nullpage), LAMBDA rc :
    IF rc.st # "ok" THEN [hp |-> hp, st |-> rc.st, code |-> rc.code]
    ELSE finish(ScopeData(node.kids, idx, 1, m, path,
                  ScopeTypedefs(node.kids, idx, 1, 0, m, path,
                    [hp |-> [hp EXCEPT ![m].nodes = PutNode(@, path, retval(rc))],
                     st |-> "ok", code |-> "none"], bld), bld)))

\* the children of a choice: container, leaf-list, leaf and list are read,
\* every other child is passed over
RECURSIVE ChoiceKids(_, _, _, _, _, _, _)
ChoiceKids(kids, idx, k, m, path, acc, bld) ==
  IF k > Len(idx) \/ acc.st # "ok" THEN acc
  ELSE
    LET sub == kids[idx[k]] IN
    IF sub.name \in {"container", "leaf-list", "leaf", "list"}
    THEN ChoiceKids(kids, idx, k + 1, m, path,
                    ReadNode(acc.hp, m, path, sub, Append(path, idx[k]), bld), bld)
    ELSE ChoiceKids(kids, idx, k + 1, m, path, acc, bld)

\* read_yin_choice: [hp, st, code]
ReadYinChoice(hp, m, parent, node, path, bld) ==
  LET retval(rc) == [NewNode(path, "choice") EXCEPT
                       !.module = m, !.name = rc.name, !.flags = rc.flags]
      finish(r) == IF r.st # "ok"
                   THEN FreeNode(r, m, path, bld)
                   ELSE [r EXCEPT !.hp[m].nodes = LyMnodeAddchild(@, parent, path)]
  IN
  With(ReadYinCommon(parent # NullId,
                     IF parent = NullId THEN {} ELSE hp[m].nodes[parent].flags,
                     node, TRUE, bld.nullpage), LAMBDA rc :
    IF rc.st # "ok" THEN [hp |-> hp, st |-> rc.st, code |-> rc.code]
    ELSE finish(ChoiceKids(node.kids, RestIdx(node.kids, 1, TRUE), 1, m, path,
                  [hp |-> [hp EXCEPT ![m].nodes = PutNode(@, path, retval(rc))],
                   st |-> "ok", code |-> "none"], bld)))

\* ------------------------------------------------------------ read_yin_list
\* strpbrk(s, " \t\n"): the position of the first whitespace piece, 0 for none
RECURSIVE StrPBrk(_, _)
StrPBrk(s, i) ==
  IF i > Len(s) THEN 0
  ELSE IF IsSpace(s[i]) THEN i
  ELSE StrPBrk(s, i + 1)

\* while (isspace(*s)) s++
RECURSIVE SkipSpace(_)
SkipSpace(s) == IF s # <<>> /\ IsSpace(s[1]) THEN SkipSpace(Tail(s)) ELSE s

\* while ((s = strpbrk(s, " \t\n"))) { keys_size++; skip the space }
\* keys_size++
RECURSIVE CountKeys(_)
CountKeys(s) ==
  With(StrPBrk(s, 1), LAMBDA j :
    IF j = 0 THEN 1 ELSE 1 + CountKeys(SkipSpace(Tail_(s, j - 1))))

\* the first loop of read_yin_list over the key statements.
\* acc = [key_str, keys_size, st, code], key_str NoAttr for NULL
RECURSIVE KeyStmts(_, _, _, _)
KeyStmts(kids, idx, k, acc) ==
  IF k > Len(idx) \/ acc.st # "ok" THEN acc
  ELSE
    LET sub == kids[idx[k]] IN
    IF sub.name # "key" THEN KeyStmts(kids, idx, k + 1, acc)
    \* check cardinality 0..1
    ELSE IF acc.keys_size > 0
    THEN [acc EXCEPT !.st = "fail", !.code = "VE_TOOMANY"]
    ELSE IF sub.arg = NoAttr
    THEN [acc EXCEPT !.st = "fail", !.code = "VE_MISSARG"]
    ELSE KeyStmts(kids, idx, k + 1,
                  [acc EXCEPT !.key_str = sub.arg, !.keys_size = CountKeys(sub.arg)])

\* LY_TREE_FOR(list->child, mnode) if (!strncmp(mnode->name, key_str, len) &&
\* !mnode->name[len]): the first child of that name, NullId when none
RECURSIVE FindChild(_, _, _)
FindChild(nodes, mnode, name) ==
  IF mnode = NullId THEN NullId
  ELSE IF nodes[mnode].name = name THEN mnode
  ELSE FindChild(nodes, nodes[mnode].next, name)

\* the checks on a key without the check of its type
KeyErrorAnyType(list, keys, key, leaf) ==
  IF key = NullId THEN "VE_KEY_MISS"
  ELSE IF \E j \in 1..Len(keys) : keys[j] = key THEN "VE_KEY_DUP"
  ELSE IF leaf.nodetype # "leaf" THEN "VE_KEY_NLEAF"
  ELSE IF list.flags \cap ConfigMask # leaf.flags \cap ConfigMask THEN "VE_KEY_CONFIG"
  ELSE "none"

\* the checks on keys[i] = key: the code logged, "none" when the key passes
KeyError(list, keys, key, leaf) ==
  \* existence
  IF key = NullId THEN "VE_KEY_MISS"
  \* uniqueness
  ELSE IF \E j \in 1..Len(keys) : keys[j] = key THEN "VE_KEY_DUP"
  \* key is a leaf
  ELSE IF leaf.nodetype # "leaf" THEN "VE_KEY_NLEAF"
  \* type of the leaf is not built-in empty
  ELSE IF leaf.type.base = "empty" THEN "VE_KEY_TYPE"
  \* config attribute is the same as of the list
  ELSE IF list.flags \cap ConfigMask # leaf.flags \cap ConfigMask THEN "VE_KEY_CONFIG"
  ELSE "none"

\* link key leafs into the list structure and check all constraints: the
\* turns i, i + 1, ... of the loop on what is left of the key string.
\* [keys, code]
RECURSIVE BindKeys(_, _, _, _, _, _)
BindKeys(nodes, path, key_str, i, keys_size, keys) ==
  IF i > keys_size THEN [keys |-> keys, code |-> "none"]
  ELSE
    LET s == StrPBrk(key_str, 1)
        len == IF s # 0 THEN s - 1 ELSE Len(key_str)
        key == FindChild(nodes, nodes[path].child, SubSeq(key_str, 1, len))
        code == KeyError(nodes[path], keys, key,
                         IF key = NullId THEN NewNode(NullId, "none") ELSE nodes[key])
    IN IF code # "none" THEN [keys |-> Append(keys, key), code |-> code]
       ELSE BindKeys(nodes, path,
                     IF s # 0 THEN SkipSpace(Tail_(key_str, s - 1)) ELSE <<>>,
                     i + 1, keys_size, Append(keys, key))

\* read_yin_list: [hp, st, code]
ReadYinList(hp, m, parent, node, path, bld) ==
  LET idx == RestIdx(node.kids, 1, TRUE)
      c_tpdf == Len(SelectSeq(idx, LAMBDA i : node.kids[i].name = "typedef"))
      retval(rc) == [NewNode(path, "list") EXCEPT
                       !.module = m, !.name = rc.name, !.flags = rc.flags]
      \* link key leafs into the list structure; error: ly_mnode_free(retval)
      \* with the list linked under parent
      bind(r, ks, b) ==
        IF b.code = "none"
        THEN [r EXCEPT !.hp[m].nodes[path].keys = b.keys]
        ELSE FreeNode([r EXCEPT !.st = "fail", !.code = b.code], m, path, bld)
      \* ly_mnode_addchild(parent, retval); a list without key returns here
      attach(r, ks) ==
        IF r.st # "ok" THEN FreeNode(r, m, path, bld)
        ELSE With([r EXCEPT !.hp[m].nodes = LyMnodeAddchild(@, parent, path)], LAMBDA r1 :
               IF ks.key_str = NoAttr THEN r1
               ELSE bind(r1, ks, BindKeys(r1.hp[m].nodes, path, ks.key_str, 1,
                                          ks.keys_size, <<>>)))
      \* middle part and last part
      fill(rc, ks) ==
        attach(ScopeData(node.kids, idx, 1, m, path,
                 ScopeTypedefs(node.kids, idx, 1, 0, m, path,
                   [hp |-> [hp EXCEPT ![m].nodes =
                              PutNode(@, path,
                                [retval(rc) EXCEPT
                                   !.keys_size = ks.keys_size,
                                   !.tpdf_size = c_tpdf,
                                   !.tpdf = [i \in 1..c_tpdf |-> EmptyTpdf]])],
                    st |-> "ok", code |-> "none"], bld), bld), ks)
      keyed(rc, ks) ==
        IF ks.st # "ok" THEN [hp |-> hp, st |-> ks.st, code |-> ks.code]
        \* if list is configuration, key statement is mandatory
        ELSE IF "CONFIG_W" \in rc.flags /\ ks.key_str = NoAttr
        THEN [hp |-> hp, st |-> "fail", code |-> "VE_MISSSTMT2"]
        ELSE fill(rc, ks)
  IN
  With(ReadYinCommon(parent # NullId,
                     IF parent = NullId THEN {} ELSE hp[m].nodes[parent].flags,
                     node, TRUE, bld.nullpage), LAMBDA rc :
    IF rc.st # "ok" THEN [hp |-> hp, st |-> rc.st, code |-> rc.code]
    ELSE keyed(rc, KeyStmts(node.kids, idx, 1,
                            [key_str |-> NoAttr, keys_size |-> 0,
                             st |-> "ok", code |-> "none"])))

\* ------------------------------------------------------------ read_yin_uses
\* LY_TREE_FOR(first, mnode) if (mnode->nodetype == LY_NODE_GROUPING &&
\* !strcmp(mnode->name, name)): the first such sibling, NullId when none
RECURSIVE FindGrouping(_, _, _)
FindGrouping(nodes, mnode, name) ==
  IF mnode = NullId THEN NullId
  ELSE IF nodes[mnode].nodetype = "grouping" /\ nodes[mnode].name = name THEN mnode
  ELSE FindGrouping(nodes, nodes[mnode].next, name)

\* for (par = parent; par; par = par->parent) LY_TREE_FOR(parent->child, ...):
\* every turn searches the children of parent, so the turns after the first
\* find what the first found
LocalGrouping(nodes, parent, name) ==
  IF parent = NullId THEN NullId
  ELSE FindGrouping(nodes, nodes[parent].child, name)

\* read_yin_uses: [hp, st, code].  The argument resolve is not used by the
\* function beyond its last test, after which both ways return retval.
ReadYinUses(hp, m, parent, node, path, bld) ==
  LET mod == hp[m]
      retval(rc, grp) == [NewNode(path, "uses") EXCEPT
                            !.module = m, !.name = rc.name, !.flags = rc.flags,
                            !.grp = IF grp = NullId THEN NoGrp
                                    ELSE [m |-> m, path |-> grp]]
      done(rc, grp) ==
        [hp |-> [hp EXCEPT ![m].nodes =
                   LyMnodeAddchild(PutNode(@, path, retval(rc, grp)), parent, path)],
         st |-> "ok", code |-> "none"]
      \* search in top level of the current module
      top(name) == FindGrouping(mod.nodes, mod.data, name)
      \* in local tree hierarchy, then in top level: the later hit is kept
      local(name) ==
        With(top(name), LAMBDA g :
          IF g # NullId THEN g ELSE LocalGrouping(mod.nodes, parent, name))
      \* in top-level groupings of some other module: searchmod is found by
      \* the prefix, the list searched is module->data
      other(rc, name, i) ==
        IF i < 0 THEN [hp |-> hp, st |-> "crash", code |-> "none"]
        ELSE IF i = 0 THEN [hp |-> hp, st |-> "fail", code |-> "VE_INPREFIX"]
        ELSE IF top(name) = NullId THEN [hp |-> hp, st |-> "fail", code |-> "VE_INARG"]
        ELSE done(rc, top(name))
      search(rc, colon) ==
        LET name == IF colon = 0 THEN rc.name ELSE Tail_(rc.name, colon)
            len0 == IF colon = 0 THEN 0 ELSE colon - 1
            \* prefix refers to the current module, ignore it
            prefix_len == IF colon # 0 /\ PrefixIs(rc.name, len0, mod.prefix)
                          THEN 0 ELSE len0
        IN IF prefix_len # 0
           THEN other(rc, name,
                      ScanImports(mod.imp, mod.imp_size, rc.name, prefix_len, 1,
                                  bld.nullpage))
           ELSE done(rc, local(name))
  IN
  With(ReadYinCommon(parent # NullId,
                     IF parent = NullId THEN {} ELSE hp[m].nodes[parent].flags,
                     node, FALSE, bld.nullpage), LAMBDA rc :
    IF rc.st # "ok" THEN [hp |-> hp, st |-> rc.st, code |-> rc.code]
    ELSE search(rc, StrChr(rc.name, ":")))

\* the dispatch on the statement name that every reader of data nodes makes
ReadNode(hp, m, parent, sub, path, bld) ==
  IF sub.name \in {"container", "grouping"}
  THEN ReadYinScope(hp, m, parent, sub, path, sub.name, bld)
  ELSE IF sub.name \in {"leaf", "leaf-list"}
  THEN ReadYinLeaf(hp, m, parent, sub, path,
                   IF sub.name = "leaf" THEN "leaf" ELSE "leaflist", bld)
  ELSE IF sub.name = "list" THEN ReadYinList(hp, m, parent, sub, path, bld)
  ELSE IF sub.name = "uses" THEN ReadYinUses(hp, m, parent, sub, path, bld)
  ELSE CASE sub.name = "choice" -> ReadYinChoice(hp, m, parent, sub, path, bld)

\* ---------------------------------------------------------- read_sub_module
EmptyRev == [date |-> <<>>, dsc |-> NoAttr, ref |-> NoAttr]

\* the singleton statements whose field is tested before it is assigned
Singletons == {"description", "reference", "organization", "contact"}

\* module->dsc, ->ref, ->org, ->contact by statement name
TextField(mod, stmt) ==
  CASE stmt = "description" -> mod.dsc
    [] stmt = "reference" -> mod.ref
    [] stmt = "organization" -> mod.org
    [] stmt = "contact" -> mod.contact

SetTextField(mod, stmt, text) ==
  CASE stmt = "description" -> [mod EXCEPT !.dsc = text]
    [] stmt = "reference" -> [mod EXCEPT !.ref = text]
    [] stmt = "organization" -> [mod EXCEPT !.org = text]
    [] stmt = "contact" -> [mod EXCEPT !.contact = text]

\* first run: statements of cardinality 1 or 0..1 are stored, the data
\* statements are moved to root, the others stay in the element.
\* acc = [mod, keep, root, st, code]; keep and root hold child positions
RECURSIVE FirstRun(_, _, _, _, _)
FirstRun(kids, i, submodule, acc, bld) ==
  IF i > Len(kids) \/ acc.st # "ok" THEN acc
  ELSE
    LET node == kids[i]
        value == node.arg
        err(code) == [acc EXCEPT !.st = "fail", !.code = code]
        next ==
          IF node.ns # "yin" THEN acc
          ELSE IF ~submodule /\ node.name = "namespace"
          THEN IF value = NoAttr THEN err("LY_EVALID")
               ELSE [acc EXCEPT !.mod.ns = value]
          ELSE IF ~submodule /\ node.name = "prefix"
          THEN IF value = NoAttr THEN err("LY_EVALID")
               ELSE [acc EXCEPT !.mod.prefix = value]
          ELSE IF node.name \in {"import", "revision", "typedef", "identity", "include"}
          THEN [acc EXCEPT !.keep = Append(@, i)]
          ELSE IF node.name \in DataStmts
          THEN [acc EXCEPT !.root = Append(@, i)]
          ELSE IF node.name \in Singletons
          THEN IF TextField(acc.mod, node.name) # NoAttr THEN err("VE_TOOMANY")
               ELSE [acc EXCEPT !.mod = SetTextField(@, node.name, ReadYinText(node))]
          ELSE IF node.name = "yang-version"
          THEN IF acc.mod.version # 0 THEN err("VE_TOOMANY")
               ELSE IF value = NoAttr /\ bld.nullpage = "trap"
               THEN [acc EXCEPT !.st = "crash"]
               ELSE IF value # <<"1">> THEN err("VE_INARG")
               ELSE [acc EXCEPT !.mod.version = 1]
          ELSE [acc EXCEPT !.keep = Append(@, i)]
    IN FirstRun(kids, i + 1, submodule, next, bld)

\* the description and reference of a <revision>
RECURSIVE RevisionKids(_, _, _)
RevisionKids(kids, k, rev) ==
  IF k > Len(kids) THEN rev
  ELSE LET child == kids[k]
           next == IF child.name = "description"
                   THEN [rev EXCEPT !.dsc = ReadYinText(child)]
                   ELSE IF child.name = "reference"
                   THEN [rev EXCEPT !.ref = ReadYinText(child)]
                   ELSE rev
       IN RevisionKids(kids, k + 1, next)

\* middle part: import, include, revision, typedef and identity in source
\* order, each size counted up after its slot is filled; any other statement
\* left in the element is released.  acc = [hp, st, code]
RECURSIVE MiddlePart(_, _, _, _, _, _, _)
MiddlePart(kids, keep, k, c, m, acc, bld) ==
  IF k > Len(keep) \/ acc.st # "ok" THEN acc
  ELSE
    LET node == kids[keep[k]]
        hp == acc.hp
        mod == hp[m]
        next ==
          IF node.name = "import"
          THEN [FillYinImport(c, hp, m, mod.imp_size + 1, node, bld)
                  EXCEPT !.hp[m].imp_size = @ + 1]
          ELSE IF node.name = "include"
          THEN [FillYinInclude(hp, m, mod.inc_size + 1, node)
                  EXCEPT !.hp[m].inc_size = @ + 1]
          ELSE IF node.name = "revision"
          THEN \* memcpy from the date attribute, NULL when it is missing
               IF node.arg = NoAttr /\ bld.nullpage = "trap"
               THEN [acc EXCEPT !.st = "crash"]
               ELSE [acc EXCEPT
                       !.hp[m].rev[mod.rev_size + 1] =
                          RevisionKids(node.kids, 1,
                            [EmptyRev EXCEPT !.date = IF node.arg = NoAttr THEN <<>>
                                                      ELSE node.arg]),
                       !.hp[m].rev_size = @ + 1]
          ELSE IF node.name = "typedef"
          THEN [FillYinTypedef(hp, m, NullId, NullId, mod.tpdf_size + 1, node, bld)
                  EXCEPT !.hp[m].tpdf_size = @ + 1]
          ELSE IF node.name = "identity"
          THEN [FillYinIdentity(hp, m, mod.ident_size + 1, node, bld)
                  EXCEPT !.hp[m].ident_size = @ + 1]
          ELSE acc
    IN MiddlePart(kids, keep, k + 1, c, m, next, bld)

\* the inclusion of a data element that leaves the prev pointer of the first
\* element as it is
IncludeDataNoRing(mod, mnode) ==
  IF mod.data # NullId
  THEN LET data == mod.data
           lastn == CHOOSE q \in DOMAIN mod.nodes :
                      Len(q) = 1 /\ mod.nodes[q].next = NullId /\ q # mnode
       IN [mod EXCEPT !.nodes = [[@ EXCEPT ![lastn].next = mnode]
                                    EXCEPT ![mnode].prev = lastn]]
  ELSE [mod EXCEPT !.data = mnode]

\* if (module->data) { data->prev->next = mnode; mnode->prev = data->prev;
\* data->prev = mnode; } else { module->data = mnode; }
IncludeData(mod, mnode) ==
  IF mod.data # NullId
  THEN LET data == mod.data
           lastn == mod.nodes[data].prev
       IN [mod EXCEPT !.nodes = [[[@ EXCEPT ![lastn].next = mnode]
                                     EXCEPT ![mnode].prev = lastn]
                                     EXCEPT ![data].prev = mnode]]
  ELSE [mod EXCEPT !.data = mnode]

\* last part: the data nodes, in source order.  acc = [hp, st, code]
RECURSIVE LastPart(_, _, _, _, _, _)
LastPart(kids, root, k, m, acc, bld) ==
  IF k > Len(root) \/ acc.st # "ok" THEN acc
  ELSE
    LET path == <<root[k]>>
        \* include data element
        include(r) == IF r.st # "ok" THEN r
                      ELSE [r EXCEPT !.hp[m] = IncludeData(@, path)]
    IN LastPart(kids, root, k + 1, m,
                include(ReadNode(acc.hp, m, NullId, kids[root[k]], path, bld)), bld)

CountOf(kids, keep, stmt) == Len(SelectSeq(keep, LAMBDA i : kids[i].name = stmt))

\* read_sub_module with its last part run before its middle part
ReadSubModuleDataFirst(c, hp, m, yin, submodule, bld) ==
  With(FirstRun(yin.kids, 1, submodule,
                [mod |-> hp[m], keep |-> <<>>, root |-> <<>>,
                 st |-> "ok", code |-> "none"], bld), LAMBDA first :
    IF first.st # "ok" \/ (~submodule /\ (first.mod.ns = NoAttr \/ first.mod.prefix = NoAttr))
    THEN [hp |-> [hp EXCEPT ![m] = first.mod], st |-> "fail", code |-> first.code]
    ELSE MiddlePart(yin.kids, first.keep, 1, c, m,
                    LastPart(yin.kids, first.root, 1, m,
                             [hp |-> [hp EXCEPT ![m] = first.mod],
                              st |-> "ok", code |-> "none"], bld),
                    bld))

\* read_sub_module(module, yin, submodule): [hp, st, code]
ReadSubModule(c, hp, m, yin, submodule, bld) ==
  LET cnt(keep, stmt) == CountOf(yin.kids, keep, stmt)
      \* allocate arrays for elements with cardinality of 0..n
      alloc(first) ==
        [first.mod EXCEPT
           !.imp = [i \in 1..cnt(first.keep, "import") |-> EmptyImport],
           !.rev = [i \in 1..cnt(first.keep, "revision") |-> EmptyRev],
           !.tpdf = [i \in 1..cnt(first.keep, "typedef") |-> EmptyTpdf],
           !.ident = [i \in 1..cnt(first.keep, "identity") |-> EmptyIdent],
           !.inc = [i \in 1..cnt(first.keep, "include") |-> EmptyInclude]]
  IN
  With(FirstRun(yin.kids, 1, submodule,
                [mod |-> hp[m], keep |-> <<>>, root |-> <<>>,
                 st |-> "ok", code |-> "none"], bld), LAMBDA first :
    IF first.st # "ok"
    THEN [hp |-> [hp EXCEPT ![m] = first.mod], st |-> first.st, code |-> first.code]
    \* check for mandatory statements
    ELSE IF ~submodule /\ (first.mod.ns = NoAttr \/ first.mod.prefix = NoAttr)
    THEN [hp |-> [hp EXCEPT ![m] = first.mod], st |-> "fail", code |-> "VE_MISSSTMT2"]
    ELSE LastPart(yin.kids, first.root, 1, m,
                  MiddlePart(yin.kids, first.keep, 1, c, m,
                             [hp |-> [hp EXCEPT ![m] = alloc(first)],
                              st |-> "ok", code |-> "none"], bld),
                  bld))

\* ---------------------------------------------------------- yin_read_module
\* ly_ctx_new: an empty list of models.size NULL entries
LyCtxNew == [list |-> [j \in 1..InitSize |-> NULL], used |-> 0, size |-> InitSize]

\* ly_module_free(module): the module and what it owns (nodes, typedefs,
\* identities and their own derived lists) are released; the block may be
\* handed out again
LyModuleFree(hp, h) == [hp EXCEPT ![h] = FreeBlock]

\* the entries of the old list that lie outside the block of size * 2 bytes
\* that realloc returns
OutOfBlock(c) ==
  IF c.used = c.size
  THEN {j \in 1..c.size : j > (c.size * 2) \div SizeofPtr}
  ELSE {}

\* if (used == size) { newlist = realloc(list, size * 2); newlist[size .. 2 *
\* size - 1] = NULL; size *= 2; }.  An entry outside the returned block keeps
\* its value or, for the entries in lost, reads as NULL afterwards.
Grow(c, lost) ==
  IF c.used = c.size
  THEN [c EXCEPT !.size = c.size * 2,
                 !.list = [j \in 1..(c.size * 2) |->
                             IF j > c.size \/ j \in lost THEN NULL ELSE c.list[j]]]
  ELSE c

\* for (i = 0; ctx->models.list[i]; i++) with the uniqueness check:
\* [st, i], st "free" (list[i] is NULL), "dup" or "crash" (read past the list)
RECURSIVE ScanModels(_, _, _, _)
ScanModels(list, hp, module, i) ==
  IF i > Len(list) THEN [st |-> "crash", i |-> i]
  ELSE IF list[i] = NULL THEN [st |-> "free", i |-> i]
  ELSE
    LET other == hp[list[i]] IN
    IF other.name = module.name
    THEN IF other.rev_size = 0 /\ module.rev_size = 0 THEN [st |-> "dup", i |-> i]
         ELSE IF other.rev_size = 0 \/ module.rev_size = 0
         THEN ScanModels(list, hp, module, i + 1)
         \* revision at position 0 is taken for the last revision
         ELSE IF other.rev[1].date = module.rev[1].date THEN [st |-> "dup", i |-> i]
         ELSE ScanModels(list, hp, module, i + 1)
    ELSE ScanModels(list, hp, module, i + 1)

\* ------------------------------------------------------- the yanglint shell
\* the shell after start: no model loaded, no descriptor open, no command run
LintInit ==
  [models |-> <<>>, fds |-> {}, verb |-> 0,
   cmd |-> "none", ret |-> 0, st |-> "none", err |-> FALSE, effect |-> "none",
   trace |-> <<>>]

VARIABLES
  ctx,      \* struct ly_ctx: models.list, models.used, models.size
  heap,     \* the allocated modules, by handle
  build,    \* what the build does on a read through a null pointer and on
            \* freeing a block again, and its width of long
  last,     \* the last call: its document, what it returned, the state before
  calls,    \* number of calls made
  lint      \* the yanglint shell: its loaded models and open descriptors, and
            \* the last command with its return value and its system calls

vars == <<ctx, heap, build, last, calls, lint>>

NoDoc == E("", NoAttr, <<>>)

Builds == [nullpage : {"trap", "zero"}, longbits : {32, 64}, refree : {"abort", "silent"}]

Init ==
  /\ ctx = LyCtxNew
  /\ heap = [h \in Handles |-> FreeBlock]
  /\ build \in Builds
  /\ last = [doc |-> NoDoc, ret |-> NULL, st |-> "none", code |-> "none",
             list |-> <<>>, used |-> 0]
  /\ calls = 0
  /\ lint = LintInit

\* what a call leaves in `last`: the document, the pointer returned, how the
\* call ended, the code logged and the registered modules before the call
Outcome(doc, ret, st, code) ==
  [doc |-> doc, ret |-> ret, st |-> st, code |-> code,
   list |-> SubSeq(ctx.list, 1, ctx.used), used |-> ctx.used]

\* the part of yin_read_module after the root element is checked and the
\* module allocated at `module`: [ret, st, code, hp, ctx].  lost are the entries
\* that a growth of the list loses.
Compile(doc, module, lost) ==
  LET \* add to the context's list of modules
      store(r, c1, scan) ==
        IF scan.st = "crash"
        THEN [ret |-> NULL, st |-> "crash", code |-> "none", hp |-> r.hp, ctx |-> c1]
        ELSE IF scan.st = "dup"
        THEN [ret |-> NULL, st |-> "fail", code |-> "LY_EINVAL",
              hp |-> LyModuleFree(r.hp, module), ctx |-> c1]
        ELSE [ret |-> module, st |-> "ok", code |-> "none", hp |-> r.hp,
              ctx |-> [c1 EXCEPT !.list[scan.i] = module, !.used = @ + 1]]
      add(r, c1) == store(r, c1, ScanModels(c1.list, r.hp, r.hp[module], 1))
      finish(r) ==
        IF r.st = "crash"
        THEN [ret |-> NULL, st |-> "crash", code |-> "none", hp |-> r.hp, ctx |-> ctx]
        ELSE IF r.st = "fail"
        THEN [ret |-> NULL, st |-> "fail", code |-> r.code,
              hp |-> LyModuleFree(r.hp, module), ctx |-> ctx]
        ELSE add(r, Grow(ctx, lost))
  IN finish(ReadSubModule(ctx, [heap EXCEPT ![module] = NewModule(doc.arg)],
                          module, doc, FALSE, build))

\* yin_read_module(ctx, data), data the text of the document doc
YinReadModule(doc) ==
  /\ calls < MaxCalls
  /\ last.st # "crash"
  /\ calls' = calls + 1
  /\ UNCHANGED <<build, lint>>
  /\ IF doc.name # "module"
     THEN /\ last' = Outcome(doc, NULL, "fail", "VE_INSTMT")
          /\ UNCHANGED <<ctx, heap>>
     ELSE IF doc.arg = NoAttr
     THEN /\ last' = Outcome(doc, NULL, "fail", "VE_MISSARG")
          /\ UNCHANGED <<ctx, heap>>
     ELSE IF \A h \in Handles : heap[h].live
     THEN \* calloc returns NULL
          /\ last' = Outcome(doc, NULL, "fail", "LY_EFATAL")
          /\ UNCHANGED <<ctx, heap>>
     ELSE \E module \in {h \in Handles : ~heap[h].live} :
          \E lost \in SUBSET OutOfBlock(ctx) :
          \E done \in {Compile(doc, module, lost)} :
            /\ last' = Outcome(doc, done.ret, done.st, done.code)
            /\ heap' = done.hp
            /\ ctx' = done.ctx

\* ------------------------------------------------------------- the inputs
\* a module document with its namespace and prefix statements
Module(name, prefix, kids) ==
  E("module", <<name>>,
    <<E("namespace", <<"urn">>, <<>>), E("prefix", <<prefix>>, <<>>)>> \o kids)

Revision(d) == E("revision", Dates[d], <<>>)

Import(name, prefix) == E("import", <<name>>, <<E("prefix", <<prefix>>, <<>>)>>)

Identity(name, base) ==
  E("identity", <<name>>, IF base = <<>> THEN <<>> ELSE <<E("base", base, <<>>)>>)

Typedef(name, type) == E("typedef", <<name>>, <<type>>)

Type(name) == E("type", name, <<>>)

Leaf(name, type) == E("leaf", <<name>>, <<type>>)

Container(name, kids) == E("container", <<name>>, kids)

\* registry documents: module a without revision, with one revision, with two
\* revisions in either source order, importing a module named a; module b;
\* a module that does not compile; a document that is no module
Docs ==
  { Module("a", "pa", <<>>),
    Module("a", "pa", <<Revision(1)>>),
    Module("a", "pa", <<Revision(1), Revision(2)>>),
    Module("a", "pa", <<Revision(2), Revision(1)>>),
    Module("a", "pa", <<Revision(2), Import("a", "self")>>),
    Module("b", "pb", <<>>),
    Module("b", "pb", <<Identity("i", <<"nobase">>)>>),
    E("submodule", <<"s">>, <<>>) }

Next == \E doc \in Docs : YinReadModule(doc)

Spec == Init /\ [][Next]_vars

\* identity documents: the chain base <- a <- b; a base declared after its
\* use; a base naming the identity itself; a module that fails after one of
\* its identities was bound to an imported base; modules deriving from an
\* imported identity; a base with the module's own prefix; an identityref
ChainDoc ==
  Module("p", "pp", <<Identity("base", <<>>), Identity("a", <<"base">>),
                      Identity("b", <<"a">>)>>)

ForwardDoc == Module("f", "pf", <<Identity("a", <<"b">>), Identity("b", <<>>)>>)

IdentDocs ==
  { ChainDoc, ForwardDoc,
    Module("s", "ps", <<Identity("a", <<"a">>)>>),
    Module("x", "px", <<Import("p", "q"), Identity("x", <<"q", ":", "base">>),
                        Identity("y", <<"nobase">>)>>),
    Module("y", "py", <<Import("p", "q"), Identity("y", <<"q", ":", "a">>)>>),
    Module("o", "po", <<Identity("r", <<>>), Identity("d", <<"po", ":", "r">>)>>),
    Module("t", "pt", <<Import("p", "q"),
                        Leaf("l", E("type", <<"identityref">>,
                                    <<E("base", <<"q", ":", "a">>, <<>>)>>))>>) }

NextIdent == \E doc \in IdentDocs : YinReadModule(doc)

SpecIdent == Init /\ [][NextIdent]_vars

\* type documents: a container typedef whose type names the typedef itself; a
\* leaf two containers deep whose type names a typedef of the outer container,
\* with and without a module-level typedef of the same name; a leaf next to
\* the typedef it names; a container typedef naming a later typedef of the same
\* container; a chain of module-level typedefs; a typedef used through an
\* import; a type with a prefix that no import has
SelfDoc == Module("t", "pt", <<Container("c", <<Typedef("t", Type(<<"t">>))>>)>>)

ShadowDoc ==
  Module("n", "pn",
         <<Typedef("t1", Type(<<"uint32">>)),
           Container("c1", <<Typedef("t1", Type(<<"string">>)),
                             Container("c2", <<Leaf("l", Type(<<"t1">>))>>)>>)>>)

UnknownPrefixDoc == Module("z", "pz", <<Leaf("l", Type(<<"zz", ":", "t">>))>>)

TypeDocs ==
  { SelfDoc, ShadowDoc, UnknownPrefixDoc,
    Module("m", "pm",
           <<Container("c1", <<Typedef("t1", Type(<<"string">>)),
                               Container("c2", <<Leaf("l", Type(<<"t1">>))>>)>>)>>),
    Module("d", "pd",
           <<Container("c1", <<Typedef("t1", Type(<<"string">>)),
                               Leaf("l", Type(<<"t1">>))>>)>>),
    Module("w", "pw",
           <<Container("c", <<Typedef("a", Type(<<"b">>)),
                              Typedef("b", Type(<<"string">>))>>)>>),
    Module("p", "pp", <<Leaf("k", Type(<<"u">>)), Typedef("t", Type(<<"uint32">>)),
                        Typedef("u", Type(<<"pp", ":", "t">>))>>),
    Module("q", "pq", <<Import("p", "pp"), Leaf("n", Type(<<"pp", ":", "t">>))>>) }

NextType == \E doc \in TypeDocs : YinReadModule(doc)

SpecType == Init /\ [][NextType]_vars

\* enumeration documents: a leaf of type enumeration with the enums (name,
\* value or none) a, b = 5, c; a = 0, b; a = 1, b = 1; a = -5, b; a = 2,
\* b = 1, c; a = 2147483647, b; a = 2147483648; and an enumeration typedef
\* used by a leaf that states no enum
Enum(name, value) ==
  E("enum", <<name>>, IF value = NoAttr THEN <<>> ELSE <<E("value", value, <<>>)>>)

EnumLeaf(enums) == Leaf("l", E("type", <<"enumeration">>, enums))

EnumDocs ==
  { Module("e1", "p1", <<EnumLeaf(<<Enum("a", NoAttr), Enum("b", <<"5">>), Enum("c", NoAttr)>>)>>),
    Module("e2", "p2", <<EnumLeaf(<<Enum("a", <<"0">>), Enum("b", NoAttr)>>)>>),
    Module("e3", "p3", <<EnumLeaf(<<Enum("a", <<"1">>), Enum("b", <<"1">>)>>)>>),
    Module("e4", "p4", <<EnumLeaf(<<Enum("a", <<"-", "5">>), Enum("b", NoAttr)>>)>>),
    Module("e5", "p5", <<EnumLeaf(<<Enum("a", <<"2">>), Enum("b", <<"1">>), Enum("c", NoAttr)>>)>>),
    Module("e6", "p6", <<EnumLeaf(<<Enum("a", <<"2147483647">>), Enum("b", NoAttr)>>)>>),
    Module("e7", "p7", <<EnumLeaf(<<Enum("a", <<"2147483648">>)>>)>>),
    Module("e8", "p8", <<Typedef("en", E("type", <<"enumeration">>, <<Enum("x", NoAttr)>>)),
                         Leaf("l", Type(<<"en">>))>>) }

NextEnum == \E doc \in EnumDocs : YinReadModule(doc)

SpecEnum == Init /\ [][NextEnum]_vars

\* ------------------------------------------------------------------ claims
\* the positions of the context's list that hold a module
Registered == {j \in 1..Len(ctx.list) : ctx.list[j] # NULL}

\* C1: no two registered modules have the same name together with the same
\* latest revision date, and no two have the same name while both have no
\* revision
C1_NoDuplicateModule ==
  \A j, k \in Registered :
    LET a == heap[ctx.list[j]]
        b == heap[ctx.list[k]]
    IN (j # k /\ a.name = b.name) =>
         /\ ~(a.rev_size = 0 /\ b.rev_size = 0)
         /\ ~(a.rev_size > 0 /\ b.rev_size > 0 /\ Newest(a) = Newest(b))

\* C2: when yin_read_module returns failure, the registered modules (entries
\* and order) and the used count are what they were before the call
C2_FailureLeavesContext ==
  last.st = "fail" =>
    /\ SubSeq(ctx.list, 1, ctx.used) = last.list
    /\ ctx.used = last.used

\* a document with an import statement that names the module itself
HasSelfImport(doc) ==
  \E k \in 1..Len(doc.kids) : doc.kids[k].name = "import" /\ doc.kids[k].arg = doc.arg

\* C3: compiling a module that imports the module itself fails
C3_SelfImportFails ==
  (last.st # "none" /\ HasSelfImport(last.doc)) => last.st = "fail"

\* the identities of the registered modules
Identities ==
  {r \in [m : {ctx.list[j] : j \in Registered}, i : 1..3] :
     r.i <= heap[r.m].ident_size}

\* how many entries of the derived list der refer to ident
Occurrences(der, ident) == Cardinality({k \in 1..Len(der) : der[k] = ident})

\* the identities reached from b along the base pointers, b included, in at
\* most n steps
RECURSIVE BaseChain(_, _)
BaseChain(b, n) ==
  IF b = NoIdent \/ n = 0 \/ ~heap[b.m].live \/ b.i > heap[b.m].ident_size THEN {}
  ELSE {b} \cup BaseChain(IdentAt(heap, b).base, n - 1)

\* C4: every identity with a base appears exactly once in the derived list of
\* the base and of every ancestor of the base, and no identity is its own
\* ancestor
C4_DerivedOnce ==
  \A ident \in Identities :
    LET chain == BaseChain(IdentAt(heap, ident).base, 4) IN
    /\ ident \notin chain
    /\ \A b \in chain : Occurrences(IdentAt(heap, b).der, ident) = 1

\* C5: an identity whose base names an identity declared later in the same
\* module is accepted, and its base points at the later identity
C5_ForwardBaseAccepted ==
  (last.st # "none" /\ last.doc = ForwardDoc) =>
    /\ last.st = "ok"
    /\ IdentAt(heap, [m |-> last.ret, i |-> 1]).base = [m |-> last.ret, i |-> 2]

\* the typedef a derivation pointer points at
Deref(ref) ==
  IF ref.k = "builtin" THEN BuiltinTpdf(ref.t)
  ELSE IF ref.k = "mod" THEN heap[ref.m].tpdf[ref.i]
  ELSE heap[ref.m].nodes[ref.path].tpdf[ref.i]

\* following the derivation pointer from ref reaches a built-in type
\* descriptor in at most n steps
RECURSIVE ReachesBuiltin(_, _)
ReachesBuiltin(ref, n) ==
  IF ref.k = "builtin" THEN TRUE
  ELSE IF ref.k = "null" \/ n = 0 THEN FALSE
  ELSE ReachesBuiltin(Deref(ref).type.der, n - 1)

RegisteredModules == {ctx.list[j] : j \in Registered}

\* the types of the registered modules: of leaves and leaf-lists, of module
\* typedefs and of the typedefs of nodes
TypesOf(m) ==
  {heap[m].nodes[p].type : p \in {q \in DOMAIN heap[m].nodes :
                                     heap[m].nodes[q].nodetype \in {"leaf", "leaflist"}}}
  \cup {heap[m].tpdf[i].type : i \in 1..heap[m].tpdf_size}
  \cup UNION {{heap[m].nodes[p].tpdf[i].type : i \in 1..heap[m].nodes[p].tpdf_size} :
                p \in DOMAIN heap[m].nodes}

\* C6: from every type of a compiled module the derivation pointers lead to a
\* built-in type in finitely many steps; no typedef derives from itself
C6_DerivationTerminates ==
  \A m \in RegisteredModules : \A type \in TypesOf(m) : ReachesBuiltin(type.der, 4)

\* the typedef an unprefixed name denotes at the node at path p of module m:
\* the nearest container, list or grouping ancestor that has one of that name,
\* otherwise the module's top-level typedef of that name
RECURSIVE Nearest(_, _, _)
Nearest(m, p, name) ==
  IF p = NullId
  THEN LET i == ScanTpdf(heap[m].tpdf, heap[m].tpdf_size, name, 1, "zero") IN
       IF i > 0 THEN ModTpdfRef(m, i) ELSE NoTpdf
  ELSE LET n == heap[m].nodes[p]
           i == IF n.nodetype \in {"container", "list", "grouping"}
                THEN ScanTpdf(n.tpdf, n.tpdf_size, name, 1, "zero") ELSE 0
       IN IF i > 0 THEN NodeTpdfRef(m, p, i) ELSE Nearest(m, n.parent, name)

\* C7: the type of a leaf that names a typedef without a prefix derives from
\* the nearest typedef of that name on the leaf's ancestor chain, otherwise
\* from the module's top-level typedef, and has the base kind of what it
\* derives from
C7_NearestTypedef ==
  \A m \in RegisteredModules :
    \A p \in DOMAIN heap[m].nodes :
      LET n == heap[m].nodes[p] IN
      (n.nodetype \in {"leaf", "leaflist"} /\ n.type.prefix = NoAttr
         /\ n.type.der.k \in {"mod", "node"}) =>
        /\ n.type.der = Nearest(m, n.parent, Deref(n.type.der).name)
        /\ n.type.base = Deref(n.type.der).type.base

\* C8: a type whose prefix is neither the module's own nor that of an import
\* fails with the unresolvable-prefix code
C8_UnknownPrefixCode ==
  (last.st # "none" /\ last.doc = UnknownPrefixDoc) =>
    (last.st = "fail" /\ last.code = "VE_INPREFIX")

Max(S) == CHOOSE x \in S : \A y \in S : y <= x

\* the values the enums of a type statement get when an enum without a value
\* gets one more than the highest value of the enums before it, and 0 when
\* there is none before it
RECURSIVE Assigned(_, _, _)
Assigned(enums, k, acc) ==
  IF k > Len(enums) THEN acc
  ELSE LET e == enums[k]
           value == IF e.kids # <<>>
                    THEN StrToL(e.kids[1].arg, build.longbits).n
                    ELSE IF acc = <<>> THEN 0
                    ELSE Max({acc[j] : j \in 1..Len(acc)}) + 1
       IN Assigned(enums, k + 1, Append(acc, value))

\* the top-level leaves of a document that state enums
EnumLeaves(doc) ==
  {i \in 1..Len(doc.kids) :
     /\ doc.kids[i].name = "leaf"
     /\ doc.kids[i].kids[1].arg = <<"enumeration">>
     /\ doc.kids[i].kids[1].kids # <<>>}

\* C9: an enum without a value is assigned one more than the highest value of
\* the earlier enums of its enumeration, and 0 when it is the first
C9_AutoValue ==
  last.st = "ok" =>
    \A i \in EnumLeaves(last.doc) :
      LET enums == heap[last.ret].nodes[<<i>>].type.enums IN
      [j \in 1..Len(enums) |-> enums[j].value]
        = Assigned(last.doc.kids[i].kids[1].kids, 1, <<>>)

\* C10: the values of the enums of a compiled enumeration are pairwise
\* distinct
C10_DistinctValues ==
  \A m \in RegisteredModules : \A type \in TypesOf(m) :
    \A j, k \in 1..Len(type.enums) :
      j # k => type.enums[j].value # type.enums[k].value

\* ------------------------------------------------- enum values and names
\* range documents: a leaf of type enumeration with the enums a = 2147483646,
\* b = 2147483647, c; a = 2147483647, b; a = 2147483648; a = -2147483649;
\* a = -2147483648, b; a, b = 2147483647; a = 2147483649
MaxThenAutoDoc ==
  Module("n1", "p1", <<EnumLeaf(<<Enum("a", <<"2147483646">>), Enum("b", <<"2147483647">>),
                                  Enum("c", NoAttr)>>)>>)

RangeDocs ==
  { MaxThenAutoDoc,
    Module("n2", "p2", <<EnumLeaf(<<Enum("a", <<"2147483647">>), Enum("b", NoAttr)>>)>>),
    Module("n3", "p3", <<EnumLeaf(<<Enum("a", <<"2147483648">>)>>)>>),
    Module("n4", "p4", <<EnumLeaf(<<Enum("a", <<"-", "2147483649">>)>>)>>),
    Module("n5", "p5", <<EnumLeaf(<<Enum("a", <<"-", "2147483648">>), Enum("b", NoAttr)>>)>>),
    Module("n6", "p6", <<EnumLeaf(<<Enum("a", NoAttr), Enum("b", <<"2147483647">>)>>)>>),
    Module("n7", "p7", <<EnumLeaf(<<Enum("a", <<"2147483649">>)>>)>>) }

NextRange == \E doc \in RangeDocs : YinReadModule(doc)

SpecRange == Init /\ [][NextRange]_vars

\* the enum element states a value below -2^31 or above 2^31-1
OutOfInt32(e) ==
  /\ e.kids # <<>>
  /\ LET value == e.kids[1].arg
         neg == value[1] = "-"
         mag == Digits(IF neg THEN value[2] ELSE value[1])
     IN mag.k = "huge" \/ (mag.k = "edge" /\ ~neg)

\* the enum element k states no value and follows an enum of value 2^31-1
AutoAfterMax(enums, k) ==
  /\ k > 1
  /\ enums[k].kids = <<>>
  /\ enums[k - 1].kids # <<>>
  /\ enums[k - 1].kids[1].arg = <<"2147483647">>

\* C11: an explicit enum value outside the signed 32-bit range, and an enum
\* without a value that follows an enum of value 2^31-1, fail with invalid
\* argument; every stored enum value lies in the signed 32-bit range
C11_Int32Range ==
  /\ \A m \in RegisteredModules : \A type \in TypesOf(m) :
       \A j \in 1..Len(type.enums) :
         type.enums[j].value >= INT32_MIN /\ type.enums[j].value <= INT32_MAX
  /\ last.st # "none" =>
       \A i \in EnumLeaves(last.doc) :
         LET enums == last.doc.kids[i].kids[1].kids IN
         (\E k \in 1..Len(enums) : OutOfInt32(enums[k]) \/ AutoAfterMax(enums, k))
           => (last.st = "fail" /\ last.code = "VE_INARG")

\* name documents: a leaf of type enumeration with the enums " a"; "a "; a, b,
\* a; none; a typedef of enums used by a leaf that states none; a, b; and a
\* leaf restating a, a for an enumeration typedef
NameDocs ==
  { Module("w1", "p1", <<EnumLeaf(<<Enum("b", NoAttr), E("enum", <<" ", "a">>, <<>>)>>)>>),
    Module("w2", "p2", <<EnumLeaf(<<E("enum", <<"a", " ">>, <<>>)>>)>>),
    Module("w3", "p3", <<EnumLeaf(<<Enum("a", NoAttr), Enum("b", NoAttr), Enum("a", NoAttr)>>)>>),
    Module("w4", "p4", <<EnumLeaf(<<>>)>>),
    Module("w5", "p5", <<Typedef("en", E("type", <<"enumeration">>, <<Enum("x", NoAttr)>>)),
                         Leaf("l", Type(<<"en">>))>>),
    Module("w6", "p6", <<EnumLeaf(<<Enum("a", NoAttr), Enum("b", NoAttr)>>)>>),
    Module("w7", "p7", <<Typedef("en", E("type", <<"enumeration">>, <<Enum("x", NoAttr)>>)),
                         Leaf("l", E("type", <<"en">>, <<Enum("a", NoAttr), Enum("a", NoAttr)>>))>>) }

NextName == \E doc \in NameDocs : YinReadModule(doc)

SpecName == Init /\ [][NextName]_vars

\* the top-level leaves of a document
LeavesOf(doc) == {i \in 1..Len(doc.kids) : doc.kids[i].name = "leaf"}

\* an enum name of the sequence begins or ends with a whitespace character
HasSpaceName(enums) ==
  \E k \in 1..Len(enums) : IsSpace(enums[k].arg[1]) \/ IsSpace(enums[k].arg[Len(enums[k].arg)])

\* two enums of the sequence have the same name
HasEqualNames(enums) ==
  \E j, k \in 1..Len(enums) : j # k /\ enums[j].arg = enums[k].arg

\* C12: an enumeration compiles only if no enum name has leading or trailing
\* whitespace and no two enums share a name; the failures carry the
\* whitespace and the duplicate-name code; an enumeration type that names no
\* typedef and has no enum fails
C12_EnumNames ==
  /\ \A m \in RegisteredModules : \A type \in TypesOf(m) :
       /\ ~HasSpaceName([j \in 1..Len(type.enums) |-> [arg |-> type.enums[j].name]])
       /\ ~HasEqualNames([j \in 1..Len(type.enums) |-> [arg |-> type.enums[j].name]])
  /\ last.st # "none" =>
       \A i \in LeavesOf(last.doc) :
         LET type == last.doc.kids[i].kids[1]
             enums == type.kids
         IN /\ (HasSpaceName(enums) /\ ~HasEqualNames(enums))
                 => (last.st = "fail" /\ last.code = "VE_ENUM_WS")
            /\ (HasEqualNames(enums) /\ ~HasSpaceName(enums))
                 => (last.st = "fail" /\ last.code = "VE_ENUM_DUPNAME")
            /\ (enums = <<>> /\ type.arg = <<"enumeration">>) => last.st = "fail"
            /\ (last.st = "ok" /\ enums # <<>>) =>
                 [j \in 1..Len(enums) |-> enums[j].arg]
                   = [j \in 1..Len(enums) |->
                        heap[last.ret].nodes[<<i>>].type.enums[j].name]

\* the last compile failed on a duplicate enum name while a module with an
\* enumeration of two enums is registered
C12_Witness ==
  /\ last.st = "fail" /\ last.code = "VE_ENUM_DUPNAME"
  /\ \E j \in Registered :
       \E p \in DOMAIN heap[ctx.list[j]].nodes :
         Len(heap[ctx.list[j]].nodes[p].type.enums) = 2

\* -------------------------------------------------------------- list keys
List(name, kids) == E("list", <<name>>, kids)

Key(value) == E("key", value, <<>>)

Config(value) == E("config", <<value>>, <<>>)

\* a list in a container whose key leaf has another config than the list
NestedKeyDoc ==
  Module("k4", "p4",
         <<Container("c", <<List("l", <<Key(<<"a">>),
                                        E("leaf", <<"a">>, <<Config("false"),
                                                             Type(<<"string">>)>>)>>)>>)>>)

\* a list in a list whose key names a container
KeyInListDoc ==
  Module("k7", "p7", <<List("o", <<Key(<<"a">>), Leaf("a", Type(<<"string">>)),
                                   List("l", <<Key(<<"c">>), Container("c", <<>>)>>)>>)>>)

\* a list in a container whose key names no child
MissingKeyDoc ==
  Module("k8", "p8", <<Container("c", <<List("l", <<Key(<<"x">>),
                                                    Leaf("a", Type(<<"string">>))>>)>>)>>)

\* list documents: a list with the keys a and b; a list without key; a list
\* of config false without key; a list with the key a a; with a key of type
\* empty; a list of config false with a key in a container
ListDocs ==
  { Module("k1", "p1", <<List("l", <<Key(<<"a", " ", "b">>), Leaf("a", Type(<<"string">>)),
                                     Leaf("b", Type(<<"uint32">>))>>)>>),
    Module("k2", "p2", <<List("l", <<Leaf("a", Type(<<"string">>))>>)>>),
    Module("k3", "p3", <<List("l", <<Config("false"), Leaf("a", Type(<<"string">>))>>)>>),
    Module("k5", "p5", <<List("l", <<Key(<<"a", " ", "a">>), Leaf("a", Type(<<"string">>))>>)>>),
    Module("k6", "p6", <<List("l", <<Key(<<"e">>), Leaf("e", Type(<<"empty">>))>>)>>),
    Module("k9", "p9", <<Container("c", <<List("l", <<Config("false"), Key(<<"a">>),
                                                      Leaf("a", Type(<<"string">>))>>)>>)>>) }

NextList == \E doc \in ListDocs : YinReadModule(doc)

SpecList == Init /\ [][NextList]_vars

\* the lists of module m
ListsOf(m) == {p \in DOMAIN heap[m].nodes : heap[m].nodes[p].nodetype = "list"}

\* the element is a list that states neither a key nor config false
KeylessList(e) ==
  /\ e.name = "list"
  /\ \A k \in 1..Len(e.kids) :
       e.kids[k].name # "key" /\ ~(e.kids[k].name = "config" /\ e.kids[k].arg = <<"false">>)

\* C13: a compiled list whose config flag is W has a non-empty key array; its
\* keys are pairwise distinct direct children of the list that are leaves, not
\* of base type empty and of the config flag of the list; a top-level list of
\* config true without a key statement fails
C13_ListKeys ==
  /\ \A m \in RegisteredModules : \A p \in ListsOf(m) :
       LET nodes == heap[m].nodes
           list == nodes[p]
       IN "CONFIG_W" \in list.flags =>
            /\ list.keys # <<>>
            /\ Len(list.keys) = list.keys_size
            /\ \A k \in 1..Len(list.keys) :
                 /\ list.keys[k] \in DOMAIN nodes
                 /\ nodes[list.keys[k]].parent = p
                 /\ nodes[list.keys[k]].nodetype = "leaf"
                 /\ nodes[list.keys[k]].type.base # "empty"
                 /\ nodes[list.keys[k]].flags \cap ConfigMask = list.flags \cap ConfigMask
            /\ \A j, k \in 1..Len(list.keys) : j # k => list.keys[j] # list.keys[k]
  /\ (last.st # "none" /\ \E k \in 1..Len(last.doc.kids) : KeylessList(last.doc.kids[k]))
       => last.st = "fail"

\* a module with a list of config W and two keys is registered, and a list of
\* config true without key has failed
C13_Witness ==
  /\ \E m \in RegisteredModules : \E p \in ListsOf(m) :
       "CONFIG_W" \in heap[m].nodes[p].flags /\ Len(heap[m].nodes[p].keys) = 2
  /\ last.st = "fail" /\ last.code = "VE_MISSSTMT2"

\* key failure documents: the three nested lists whose key cannot be bound, a
\* top-level list with the key b a whose leaf b is missing, and lists that
\* compile at the top level and in a container
KeyFailDocs ==
  { NestedKeyDoc, KeyInListDoc, MissingKeyDoc,
    Module("k10", "p10", <<List("l", <<Key(<<"b", " ", "a">>), Leaf("a", Type(<<"string">>))>>)>>),
    Module("k11", "p11", <<List("l", <<Key(<<"a">>), Leaf("a", Type(<<"string">>))>>)>>),
    Module("k12", "p12", <<Container("c", <<List("l", <<Key(<<"a">>),
                                                        Leaf("a", Type(<<"string">>))>>)>>)>>) }

NextKeyFail == \E doc \in KeyFailDocs : YinReadModule(doc)

SpecKeyFail == Init /\ [][NextKeyFail]_vars

\* the codes of a key that cannot be bound
KeyCodes == {"VE_KEY_MISS", "VE_KEY_DUP", "VE_KEY_NLEAF", "VE_KEY_TYPE", "VE_KEY_CONFIG"}

\* C14: when the key binding of a list fails the call returns failure with
\* the code of the key check and does not end in a trap: the list is released
\* once and is not left linked in its parent, whose release would reach it
\* again
C14_KeyFailureUnlinksList ==
  (last.doc \in {NestedKeyDoc, KeyInListDoc, MissingKeyDoc} /\ last.st # "none")
    => (last.st = "fail" /\ last.code \in KeyCodes)

\* ------------------------------------------------------- config and status
Status(value) == E("status", <<value>>, <<>>)

\* a leaf that states config true in a container of config false
ConfigTrueDoc ==
  Module("f1", "p1",
         <<Container("c", <<Config("false"),
                            E("leaf", <<"x">>, <<Config("true"), Type(<<"string">>)>>)>>)>>)

\* a leaf without status statement in a deprecated container
DeprecatedDoc ==
  Module("f5", "p5", <<Container("c", <<Status("deprecated"),
                                        Leaf("x", Type(<<"string">>))>>)>>)

\* flag documents: the two above; a leaf without config in a container of
\* config false; leaves of config false and without config at the top level;
\* a leaf in a grouping; an obsolete leaf next to a leaf without status; a
\* list of config false with a leaf and a choice with a leaf-list, each with
\* a status
FlagDocs ==
  { ConfigTrueDoc, DeprecatedDoc,
    Module("f2", "p2", <<Container("c", <<Config("false"), Leaf("x", Type(<<"string">>))>>)>>),
    Module("f3", "p3", <<E("leaf", <<"x">>, <<Config("false"), Type(<<"string">>)>>),
                         Leaf("y", Type(<<"string">>))>>),
    Module("f4", "p4", <<E("grouping", <<"g">>, <<Leaf("x", Type(<<"string">>))>>)>>),
    Module("f6", "p6", <<E("leaf", <<"x">>, <<Status("obsolete"), Type(<<"string">>)>>),
                         Leaf("y", Type(<<"string">>))>>),
    Module("f7", "p7", <<List("l", <<Config("false"), Status("current"),
                                     Leaf("a", Type(<<"string">>))>>),
                         E("choice", <<"ch">>,
                           <<Status("deprecated"),
                             E("leaf-list", <<"b">>, <<Status("current"),
                                                       Type(<<"string">>)>>)>>)>>) }

NextFlag == \E doc \in FlagDocs : YinReadModule(doc)

SpecFlag == Init /\ [][NextFlag]_vars

\* the element of a document at a path of child positions
RECURSIVE ElemAt(_, _)
ElemAt(e, p) == IF p = <<>> THEN e ELSE ElemAt(e.kids[p[1]], Tail(p))

\* the argument of the first child statement of that name, NoAttr when none
StmtArg(e, name) ==
  IF \E k \in 1..Len(e.kids) : e.kids[k].name = name
  THEN e.kids[CHOOSE k \in 1..Len(e.kids) :
                /\ e.kids[k].name = name
                /\ \A j \in 1..(k - 1) : e.kids[j].name # name].arg
  ELSE NoAttr

\* the path of the parent of the node at path p
Front(p) == SubSeq(p, 1, Len(p) - 1)

\* the config flags claimed for the node at path p of the module compiled
\* last: by its config statement, otherwise those of its parent, otherwise W
ClaimedConfig(p) ==
  LET value == StmtArg(ElemAt(last.doc, p), "config") IN
  IF value = <<"false">> THEN {"CONFIG_R"}
  ELSE IF value = <<"true">> THEN {"CONFIG_W"}
  ELSE IF Len(p) = 1 THEN {"CONFIG_W"}
  ELSE heap[last.ret].nodes[Front(p)].flags \cap ConfigMask

\* C15: every container, list, leaf, leaf-list and choice has exactly one
\* config flag: R when it states config false, W when it states config true,
\* otherwise the flag of its parent, and W at the top level
C15_ConfigFlag ==
  last.st = "ok" =>
    \A p \in DOMAIN heap[last.ret].nodes :
      LET n == heap[last.ret].nodes[p] IN
      n.nodetype \in {"container", "list", "leaf", "leaflist", "choice"} =>
        /\ Cardinality(n.flags \cap ConfigMask) = 1
        /\ n.flags \cap ConfigMask = ClaimedConfig(p)

\* the status a node carries: current when no other flag says otherwise
StatusOf(flags) ==
  IF "STATUS_DEPRC" \in flags THEN "deprecated"
  ELSE IF "STATUS_OBSLT" \in flags THEN "obsolete"
  ELSE "current"

\* the status claimed for the node at path p of the module compiled last: by
\* its status statement, otherwise that of its parent, otherwise current
RECURSIVE ClaimedStatus(_)
ClaimedStatus(p) ==
  LET value == StmtArg(ElemAt(last.doc, p), "status") IN
  IF value # NoAttr THEN value[1]
  ELSE IF Len(p) = 1 THEN "current"
  ELSE ClaimedStatus(Front(p))

\* C16: every compiled node carries one status: that of its status statement,
\* otherwise that of its parent, and current when none is stated up to the
\* top level
C16_StatusFlag ==
  last.st = "ok" =>
    \A p \in DOMAIN heap[last.ret].nodes :
      LET n == heap[last.ret].nodes[p] IN
      /\ Cardinality(n.flags \cap StatusMask) <= 1
      /\ StatusOf(n.flags) = ClaimedStatus(p)

\* ------------------------------------------------- top-level statements
Text(name, text) == E(name, NoAttr, <<E("text", <<text>>, <<>>)>>)

\* an element of a namespace other than that of YIN
Foreign(e) == [e EXCEPT !.ns = "ext"]

\* a module with two prefix statements
TwoPrefixDoc == Module("t1", "p1", <<E("prefix", <<"other">>, <<>>)>>)

\* a module with a statement of the YIN namespace that is no YANG statement
UnknownStmtDoc == Module("t7", "p7", <<E("foo", <<"bar">>, <<>>), Leaf("x", Type(<<"string">>))>>)

\* top-level documents: the two above; two namespace, two description, two
\* yang-version statements; a module without namespace and one without
\* prefix; a leaf, a typedef and a description of a foreign namespace next to
\* a leaf; a module with each singleton once
TopDocs ==
  { TwoPrefixDoc, UnknownStmtDoc,
    Module("t2", "p2", <<E("namespace", <<"urn2">>, <<>>)>>),
    Module("t3", "p3", <<Text("description", "d"), Text("description", "e")>>),
    Module("t4", "p4", <<E("yang-version", <<"1">>, <<>>), E("yang-version", <<"1">>, <<>>)>>),
    E("module", <<"t5">>, <<E("prefix", <<"p5">>, <<>>)>>),
    E("module", <<"t6">>, <<E("namespace", <<"urn">>, <<>>)>>),
    Module("t8", "p8", <<Foreign(Leaf("y", Type(<<"string">>))),
                         Foreign(Typedef("t", Type(<<"string">>))),
                         Foreign(Text("description", "d")),
                         Leaf("x", Type(<<"string">>))>>),
    Module("t9", "p9", <<E("yang-version", <<"1">>, <<>>), Text("description", "d"),
                         Text("reference", "r"), Text("organization", "o"),
                         Text("contact", "c")>>) }

NextTop == \E doc \in TopDocs : YinReadModule(doc)

SpecTop == Init /\ [][NextTop]_vars

\* the positions of the top-level children of that name in the YIN namespace
Stmts(doc, name) ==
  {k \in 1..Len(doc.kids) : doc.kids[k].name = name /\ doc.kids[k].ns = "yin"}

\* C17: a module with two occurrences of a singleton statement (namespace,
\* prefix, yang-version, description, reference, organization, contact) fails
\* to compile, and so does a module without namespace or without prefix
C17_SingletonStatements ==
  (last.st # "none" /\ last.doc.name = "module") =>
    /\ (\E name \in Singletons \cup {"namespace", "prefix", "yang-version"} :
          Cardinality(Stmts(last.doc, name)) >= 2) => last.st = "fail"
    /\ (Stmts(last.doc, "namespace") = {} \/ Stmts(last.doc, "prefix") = {})
         => last.st = "fail"

\* the names of the statements read_sub_module knows
KnownStmts ==
  Singletons \cup DataStmts
  \cup {"namespace", "prefix", "yang-version", "import", "revision", "typedef",
        "identity", "include"}

\* C18: top-level children of a foreign namespace have no effect on the
\* compiled module, and a top-level child of the YIN namespace that is no
\* known statement makes the compile fail
C18_ForeignAndUnknown ==
  (last.st # "none" /\ last.doc.name = "module") =>
    /\ (\E k \in 1..Len(last.doc.kids) :
          last.doc.kids[k].ns = "yin" /\ last.doc.kids[k].name \notin KnownStmts)
         => last.st = "fail"
    /\ last.st = "ok" =>
         /\ \A k \in 1..Len(last.doc.kids) :
              last.doc.kids[k].ns # "yin" => <<k>> \notin DOMAIN heap[last.ret].nodes
         /\ heap[last.ret].tpdf_size = Cardinality(Stmts(last.doc, "typedef"))
         /\ (Stmts(last.doc, "description") = {}) => heap[last.ret].dsc = NoAttr

\* --------------------------------------------------------------------- uses
Grouping(name, kids) == E("grouping", <<name>>, kids)

Uses(name) == E("uses", name, <<>>)

\* a uses of a grouping that is nowhere
UnknownUsesDoc == Module("u1", "p1", <<Uses(<<"nog">>)>>)

\* a uses in a container that has a grouping g, in a module with a top-level
\* grouping g
ShadowUsesDoc ==
  Module("u3", "p3",
         <<Grouping("g", <<Leaf("t", Type(<<"string">>))>>),
           Container("c", <<Grouping("g", <<Leaf("n", Type(<<"string">>))>>),
                            Uses(<<"g">>)>>)>>)

\* a uses with the prefix of an import in a module with a grouping g of its own
ImportUsesDoc ==
  Module("u7", "p7", <<Import("u5", "pp"), Grouping("g", <<>>), Uses(<<"pp", ":", "g">>)>>)

\* uses documents: the three above; a top-level uses of a top-level grouping;
\* a uses next to the grouping of its container; a module with a grouping g to
\* import; a uses of the import's g in a module without grouping; a uses with
\* a prefix that no import has
UsesDocs ==
  { UnknownUsesDoc, ShadowUsesDoc, ImportUsesDoc,
    Module("u2", "p2", <<Grouping("g", <<Leaf("t", Type(<<"string">>))>>), Uses(<<"g">>)>>),
    Module("u4", "p4", <<Container("c", <<Grouping("g", <<>>), Uses(<<"g">>)>>)>>),
    Module("u5", "p5", <<Grouping("g", <<Leaf("t", Type(<<"string">>))>>)>>),
    Module("u6", "p6", <<Import("u5", "pp"), Uses(<<"pp", ":", "g">>)>>),
    Module("u8", "p8", <<Uses(<<"zz", ":", "g">>)>>) }

NextUses == \E doc \in UsesDocs : YinReadModule(doc)

SpecUses == Init /\ [][NextUses]_vars

\* the uses nodes of module m that are not inside a grouping
UsesOf(m) ==
  {p \in DOMAIN heap[m].nodes :
     /\ heap[m].nodes[p].nodetype = "uses"
     /\ \A k \in 1..(Len(p) - 1) : heap[m].nodes[SubSeq(p, 1, k)].nodetype # "grouping"}

\* C19: a uses outside a grouping whose grouping cannot be located makes the
\* compile fail; after a compile that succeeds the grouping pointer of every
\* such uses is not NULL
C19_UnlocatedUsesFails ==
  /\ (last.st # "none" /\ last.doc = UnknownUsesDoc) => last.st = "fail"
  /\ last.st = "ok" =>
       \A p \in UsesOf(last.ret) : heap[last.ret].nodes[p].grp # NoGrp

\* the groupings of that name among the children of the scope at path q of
\* module m, the top level for the empty path
GroupingsIn(m, q, name) ==
  {g \in DOMAIN heap[m].nodes :
     /\ Len(g) = Len(q) + 1 /\ IsPrefix(q, g)
     /\ heap[m].nodes[g].nodetype = "grouping"
     /\ heap[m].nodes[g].name = name}

\* the groupings of that name in the nearest scope, from q outwards, that has
\* one
RECURSIVE NearestGroupings(_, _, _)
NearestGroupings(m, q, name) ==
  IF GroupingsIn(m, q, name) # {} \/ q = <<>>
  THEN {[m |-> m, path |-> g] : g \in GroupingsIn(m, q, name)}
  ELSE NearestGroupings(m, Front(q), name)

\* the groupings the uses at path p of module m may bind to as claimed
ClaimedGroupings(m, p) ==
  LET name == heap[m].nodes[p].name
      colon == StrChr(name, ":")
      imps == {i \in 1..heap[m].imp_size :
                 colon # 0 /\ heap[m].imp[i].prefix = SubSeq(name, 1, colon - 1)}
  IN IF imps = {}
     THEN NearestGroupings(m, Front(p), IF colon = 0 THEN name ELSE Tail_(name, colon))
     ELSE UNION {NearestGroupings(heap[m].imp[i].module, <<>>, Tail_(name, colon)) :
                   i \in imps}

\* C20: an unprefixed uses binds to the grouping of the nearest enclosing
\* scope that has one of that name, and to a top-level grouping only when no
\* enclosing scope has one; a uses with the prefix of an import binds to a
\* top-level grouping of the imported module
C20_UsesBinding ==
  last.st = "ok" =>
    \A p \in UsesOf(last.ret) :
      heap[last.ret].nodes[p].grp # NoGrp =>
        heap[last.ret].nodes[p].grp \in ClaimedGroupings(last.ret, p)

\* ------------------------------------------------ order of the three passes
\* order documents: leaves, at the top level and in a container, a leaf-list
\* and a grouping leaf that name a module typedef declared after them; an
\* identityref naming an identity declared after it; a leaf of an unknown type
\* followed by an import of a module that is nowhere; an import of a module
\* that is nowhere followed by a leaf of an unknown type; a module of two
\* typedefs in front of their leaves
LateTypedefDoc ==
  Module("o1", "p1",
         <<Leaf("l", Type(<<"t">>)),
           Container("c", <<Leaf("k", Type(<<"t">>))>>),
           E("leaf-list", <<"ll">>, <<Type(<<"u">>)>>),
           Typedef("t", Type(<<"uint8">>)),
           Typedef("u", Type(<<"t">>))>>)

LateIdentityDoc ==
  Module("o2", "p2",
         <<Grouping("g", <<Leaf("x", Type(<<"t">>))>>),
           Leaf("r", E("type", <<"identityref">>, <<E("base", <<"i">>, <<>>)>>)),
           Identity("i", <<>>),
           Typedef("t", Type(<<"string">>))>>)

LateErrorDoc ==
  Module("o3", "p3", <<Leaf("l", Type(<<"nosuch">>)), Import("nomod", "n")>>)

OrderDocs ==
  { LateTypedefDoc, LateIdentityDoc, LateErrorDoc,
    Module("o4", "p4", <<Import("nomod", "n"), Leaf("l", Type(<<"nosuch">>))>>),
    Module("o5", "p5", <<Typedef("t", Type(<<"uint8">>)), Typedef("u", Type(<<"t">>)),
                         Leaf("l", Type(<<"u">>)), Leaf("k", Type(<<"t">>))>>) }

NextOrder == \E doc \in OrderDocs : YinReadModule(doc)

SpecOrder == Init /\ [][NextOrder]_vars

\* the position among the typedefs of doc of its first typedef of that name, 0
\* when it has none
TypedefIndex(doc, name) ==
  LET at == {k \in Stmts(doc, "typedef") : doc.kids[k].arg = name} IN
  IF at = {} THEN 0
  ELSE Cardinality({k \in Stmts(doc, "typedef") :
                      \A j \in at : k <= j})

\* the leaves and leaf-lists of the module compiled last whose type names,
\* without a prefix, a typedef of the module that no enclosing statement
\* declares as well
ModuleTypedLeaves ==
  {p \in DOMAIN heap[last.ret].nodes :
     /\ heap[last.ret].nodes[p].nodetype \in {"leaf", "leaflist"}
     /\ TypedefIndex(last.doc, StmtArg(ElemAt(last.doc, p), "type")) > 0
     /\ \A k \in 1..(Len(p) - 1) :
          TypedefIndex(ElemAt(last.doc, SubSeq(p, 1, k)),
                       StmtArg(ElemAt(last.doc, p), "type")) = 0}

\* the first of doc's imports, includes, revisions, typedefs and identities is
\* an import of a module that is not in the context, and doc has a data
\* statement
UnknownImportFirst(doc) ==
  LET middle == UNION {Stmts(doc, n) : n \in {"import", "include", "revision",
                                              "typedef", "identity"}}
  IN /\ doc.name = "module"
     /\ \E k \in 1..Len(doc.kids) : doc.kids[k].name \in DataStmts
     /\ \E k \in Stmts(doc, "import") :
          /\ \A j \in middle : k <= j
          /\ \A h \in Handles : ~(heap[h].live /\ heap[h].name = doc.kids[k].arg)

\* C21: the data statements of a module are read after all its imports,
\* includes, revisions, typedefs and identities are filled.  After a compile
\* that succeeds every leaf and leaf-list whose type names a typedef of the
\* module is derived from that typedef, wherever in the source the typedef
\* stands; and a module whose import cannot be filled fails with the import's
\* error even when a data statement that cannot be read stands before it.
C21_DataReadLast ==
  /\ last.st = "ok" =>
       \A p \in ModuleTypedLeaves :
         heap[last.ret].nodes[p].type.der =
           ModTpdfRef(last.ret, TypedefIndex(last.doc, StmtArg(ElemAt(last.doc, p), "type")))
  /\ (UnknownImportFirst(last.doc) /\ last.code # "LY_EFATAL") =>
       (last.st = "fail" /\ last.code = "LY_EVALID")

\* a module whose leaves stand before the typedef they name has compiled, and
\* a module with an unreadable leaf before an unknown import has failed
C21_Witness ==
  /\ last.doc = LateErrorDoc
  /\ last.code = "LY_EVALID"
  /\ \E m \in RegisteredModules :
       /\ heap[m].name = <<"o1">>
       /\ heap[m].nodes[<<3>>].type.der = ModTpdfRef(m, 1)
       /\ heap[m].nodes[<<5>>].type.der = ModTpdfRef(m, 2)

\* -------------------------------------------------- the top-level data nodes
\* a module with a data statement of every kind and one of another namespace
AllKindsDoc ==
  Module("o6", "p6",
         <<Grouping("g", <<Leaf("x", Type(<<"string">>))>>),
           Uses(<<"g">>),
           Foreign(Leaf("f", Type(<<"string">>))),
           List("s", <<Key(<<"a">>), Leaf("a", Type(<<"string">>))>>),
           Typedef("t", Type(<<"uint8">>)),
           E("choice", <<"ch">>, <<>>),
           E("leaf-list", <<"ll">>, <<Type(<<"t">>)>>),
           Container("c", <<>>),
           Leaf("l", Type(<<"t">>))>>)

\* data documents: that module; a module of one leaf; a module of a leaf, a
\* container (with data statements around a typedef and a description) and a
\* leaf; a module whose second leaf cannot be read
NestedDataDoc ==
  Module("d2", "p2", <<Leaf("l", Type(<<"string">>)),
                       Container("c", <<Leaf("k", Type(<<"string">>)),
                                        Typedef("t", Type(<<"string">>)),
                                        Text("description", "d"),
                                        Container("e", <<>>),
                                        Leaf("j", Type(<<"t">>))>>),
                       Leaf("m", Type(<<"string">>))>>)

DataDocs ==
  { AllKindsDoc, NestedDataDoc,
    Module("d1", "p1", <<Leaf("l", Type(<<"string">>))>>),
    Module("d3", "p3", <<Leaf("l", Type(<<"string">>)), Leaf("m", Type(<<"nosuch">>))>>) }

NextData == \E doc \in DataDocs : YinReadModule(doc)

SpecData == Init /\ [][NextData]_vars

\* the data statements of doc in source order, as the paths of their nodes
RECURSIVE TopData(_, _)
TopData(doc, k) ==
  IF k > Len(doc.kids) THEN <<>>
  ELSE IF doc.kids[k].name \in DataStmts /\ doc.kids[k].ns = "yin"
  THEN <<(<<k>>)>> \o TopData(doc, k + 1)
  ELSE TopData(doc, k + 1)

\* the nodes met by following next from p, at most n of them
RECURSIVE WalkNext(_, _, _)
WalkNext(nodes, p, n) ==
  IF p = NullId \/ n = 0 \/ p \notin DOMAIN nodes THEN <<>>
  ELSE <<p>> \o WalkNext(nodes, nodes[p].next, n - 1)

\* C22: after a compile that attached N >= 1 top-level data nodes, module.data
\* is a half-ring of those nodes in the source order of their statements: the
\* prev of the first is the last, the next of the last is nil, and following
\* next from the first visits the N nodes in N - 1 steps.
C22_DataHalfRing ==
  (last.st = "ok" /\ TopData(last.doc, 1) # <<>>) =>
    LET mod == heap[last.ret]
        want == TopData(last.doc, 1)
        N == Len(want)
    IN /\ mod.data = want[1]
       /\ mod.nodes[want[1]].prev = want[N]
       /\ mod.nodes[want[N]].next = NullId
       /\ WalkNext(mod.nodes, mod.data, N + 1) = want
       /\ \A k \in 2..N : mod.nodes[want[k]].prev = want[k - 1]

\* the module with a data statement of every kind has compiled and has seven
\* top-level nodes
C22_Witness ==
  /\ last.st = "ok"
  /\ last.doc = AllKindsDoc
  /\ Len(TopData(last.doc, 1)) = 7
  /\ heap[last.ret].data = <<3>>

\* ------------------------------------------------------ the XML child lists
\* classify documents: the module with every kind of data statement; the
\* module with a container of data statements around a typedef and a
\* description; a module whose second description ends the first loop
XmlDocs ==
  { AllKindsDoc, NestedDataDoc,
    Module("x2", "p2", <<Text("description", "a"), Leaf("l", Type(<<"string">>)),
                         Text("description", "b")>>) }

NextXml == \E doc \in XmlDocs : YinReadModule(doc)

SpecXml == Init /\ [][NextXml]_vars

\* The children of one XML element as struct lyxml_elem: el[i] is the child at
\* source position i with its parent ("yin", the element; "root", the staging
\* root; "none"), next and prev (0 is NULL); child is the first child of each
\* owner; gone are the children released.
XmlOf(kids) ==
  [el |-> [i \in 1..Len(kids) |->
             [parent |-> "yin",
              next |-> IF i = Len(kids) THEN 0 ELSE i + 1,
              prev |-> IF i = 1 THEN Len(kids) ELSE i - 1]],
   child |-> [o \in {"yin", "root"} |-> IF o = "yin" /\ Len(kids) > 0 THEN 1 ELSE 0],
   gone |-> {}]

\* an unlink that leaves the siblings of the element as they are
LyxmlUnlinkElemOnly(x, e) ==
  [x EXCEPT !.el[e].parent = "none"]

\* lyxml_unlink_elem(elem): the element is taken out of the child list of its
\* parent, next and prev of its siblings are re-linked and the half-ring is
\* restored
LyxmlUnlinkElem(x, e) ==
  LET p == x.el[e].parent
      nx == x.el[e].next
      pv == x.el[e].prev
      first == IF x.child[p] = e THEN nx ELSE x.child[p]
      relink(i) ==
        [x.el[i] EXCEPT
           !.prev = IF (nx # 0 /\ i = nx) \/ (nx = 0 /\ i = first) THEN pv ELSE @,
           !.next = IF i = pv /\ x.el[pv].next # 0 THEN nx ELSE @]
  IN IF p = "none" THEN x
     ELSE [x EXCEPT
             !.child[p] = first,
             !.el = [i \in DOMAIN x.el |->
                       IF i = e THEN [parent |-> "none", next |-> 0, prev |-> e]
                       ELSE IF pv = e THEN x.el[i]
                       ELSE relink(i)]]

\* lyxml_add_child(parent, elem): the element is appended to the half-ring of
\* the parent's children
LyxmlAddChild(x, parent, e) ==
  IF x.child[parent] = 0
  THEN [x EXCEPT !.child[parent] = e,
                 !.el[e] = [parent |-> parent, next |-> 0, prev |-> e]]
  ELSE LET first == x.child[parent]
           lastn == x.el[first].prev
       IN [x EXCEPT
             !.el = [i \in DOMAIN x.el |->
                       IF i = e THEN [parent |-> parent, next |-> 0, prev |-> lastn]
                       ELSE [x.el[i] EXCEPT
                               !.next = IF i = lastn THEN e ELSE @,
                               !.prev = IF i = first THEN e ELSE @]]]

\* lyxml_free_elem(ctx, elem): the element is unlinked and released
LyxmlFreeElem(x, e) == [LyxmlUnlinkElem(x, e) EXCEPT !.gone = @ \cup {e}]

\* the body of the first loop of read_sub_module for a module, as far as it
\* changes the child lists: elements of another namespace and the statements
\* stored at once are released, data statements are moved to root
ClassifyModuleElem(node) ==
  IF node.ns # "yin" \/ node.name \in {"namespace", "prefix", "yang-version"} \cup Singletons
  THEN "free"
  ELSE IF node.name \in DataStmts THEN "move"
  ELSE "stay"

\* the body of the loop of read_yin_container over what read_yin_common left
ClassifyContainerElem(node) ==
  IF node.name \in DataStmts THEN "move" ELSE "stay"

\* the loop body by the reader that runs it
ClassifyElem(reader, node) ==
  IF reader = "read_sub_module" THEN ClassifyModuleElem(node)
  ELSE ClassifyContainerElem(node)

\* a classification that unlinks the data statements without re-linking their
\* siblings
RECURSIVE ClassifyNoRelink(_, _, _, _)
ClassifyNoRelink(kids, x, node, reader) ==
  IF node = 0 THEN x
  ELSE LET next == x.el[node].next
           what == ClassifyElem(reader, kids[node])
       IN ClassifyNoRelink(kids,
                     IF what = "free" THEN LyxmlFreeElem(x, node)
                     ELSE IF what = "move"
                     THEN LyxmlAddChild(LyxmlUnlinkElemOnly(x, node), "root", node)
                     ELSE x,
                     next, reader)

\* LY_TREE_FOR_SAFE(yin->child, next, node) { ... lyxml_unlink_elem(node);
\* lyxml_add_child(&root, node); ... }: next is read before the body runs
RECURSIVE Classify(_, _, _, _)
Classify(kids, x, node, reader) ==
  IF node = 0 THEN x
  ELSE LET next == x.el[node].next
           what == ClassifyElem(reader, kids[node])
       IN Classify(kids,
                   IF what = "free" THEN LyxmlFreeElem(x, node)
                   ELSE IF what = "move"
                   THEN LyxmlAddChild(LyxmlUnlinkElem(x, node), "root", node)
                   ELSE x,
                   next, reader)

\* LY_TREE_FOR_SAFE(xmlnode->child, next, sub) of read_yin_common: the
\* statements it reads are released
RECURSIVE CommonFree(_, _, _, _)
CommonFree(kids, x, sub, ext) ==
  IF sub = 0 THEN x
  ELSE LET next == x.el[sub].next IN
       CommonFree(kids,
                  IF \/ kids[sub].name \in {"description", "reference", "status"}
                     \/ (ext /\ kids[sub].name = "config")
                  THEN LyxmlFreeElem(x, sub)
                  ELSE x,
                  next, ext)

\* the child lists of a module element after the first loop of read_sub_module
ClassifyModule(yin) ==
  Classify(yin.kids, XmlOf(yin.kids), XmlOf(yin.kids).child["yin"], "read_sub_module")

\* the child lists of a container element after the first loop of
\* read_yin_container
ClassifyContainer(node) ==
  With(CommonFree(node.kids, XmlOf(node.kids), XmlOf(node.kids).child["yin"], TRUE),
       LAMBDA x : Classify(node.kids, x, x.child["yin"], "read_yin_container"))

\* the child list of owner, by following next from its first child
RECURSIVE ListOf(_, _, _)
ListOf(x, e, n) ==
  IF e = 0 \/ n = 0 THEN <<>> ELSE <<e>> \o ListOf(x, x.el[e].next, n - 1)

\* the sequence l is a half-ring of children of owner: the prev of the first
\* is the last, prev undoes next, every element has the owner for parent and
\* is not released, and no other element has
HalfRingOf(x, owner, l) ==
  /\ Len(l) <= Len(x.el)
  /\ l # <<>> => x.el[l[1]].prev = l[Len(l)]
  /\ \A k \in 2..Len(l) : x.el[l[k]].prev = l[k - 1]
  /\ \A k \in 1..Len(l) : x.el[l[k]].parent = owner /\ l[k] \notin x.gone
  /\ \A i \in DOMAIN x.el :
       (x.el[i].parent = owner /\ i \notin x.gone) => \E k \in 1..Len(l) : l[k] = i

\* the child list of owner, followed along next, is a half-ring
HalfRing(x, owner) ==
  With(ListOf(x, x.child[owner], Len(x.el) + 1), LAMBDA l : HalfRingOf(x, owner, l))

\* the element is a data statement for that reader
IsData(reader, e) ==
  e.name \in DataStmts /\ (reader = "read_sub_module" => e.ns = "yin")

\* the positions of kids, in source order, of the data statements
RECURSIVE Positions(_, _, _)
Positions(kids, k, reader) ==
  IF k > Len(kids) THEN <<>>
  ELSE IF IsData(reader, kids[k]) THEN <<k>> \o Positions(kids, k + 1, reader)
  ELSE Positions(kids, k + 1, reader)

\* after the pass over the children kids that left x: both lists are
\* half-rings, root lists the data statements in source order (they are
\* `moved`), the element lists what was not moved or released (`kept`)
Classified(kids, x, reader, moved, kept) ==
  /\ HalfRing(x, "root")
  /\ HalfRing(x, "yin")
  /\ moved = Positions(kids, 1, reader)
  /\ ListOf(x, x.child["root"], Len(kids) + 1) = moved
  /\ ListOf(x, x.child["yin"], Len(kids) + 1) = kept
  /\ \A k \in 1..Len(kept) : ~IsData(reader, kids[kept[k]])

\* what the first run of read_sub_module makes of the document read last
FirstRunOf(doc) ==
  FirstRun(doc.kids, 1, FALSE,
           [mod |-> NewModule(doc.arg), keep |-> <<>>, root |-> <<>>,
            st |-> "ok", code |-> "none"], build)

\* the containers among the children of the document
ContainersOf(doc) ==
  {k \in 1..Len(doc.kids) : doc.kids[k].name = "container" /\ doc.kids[k].ns = "yin"}

NoTypeLeafDoc == Module("n1", "p1", <<E("leaf", <<"l">>, <<>>)>>)

NoTypeDocs ==
  { NoTypeLeafDoc,
    Module("n2", "p2", <<Container("c", <<E("leaf-list", <<"ll">>, <<Config("true")>>)>>)>>),
    Module("n3", "p3", <<E("typedef", <<"t">>, <<>>)>>),
    Module("n4", "p4", <<Container("c", <<E("typedef", <<"t">>, <<Status("current")>>)>>)>>),
    Module("n5", "p5", <<Typedef("t", Type(<<"string">>)), Leaf("l", Type(<<"t">>)),
                         E("leaf-list", <<"ll">>, <<Type(<<"uint8">>)>>)>>) }

NextNoType == \E doc \in NoTypeDocs : YinReadModule(doc)

SpecNoType == Init /\ [][NextNoType]_vars

\* the statement e, or a statement below it, is a leaf, leaf-list or typedef
\* without a type statement
RECURSIVE LacksType(_)
LacksType(e) ==
  \/ e.name \in {"leaf", "leaf-list", "typedef"} /\ StmtArg(e, "type") = NoAttr
  \/ \E k \in 1..Len(e.kids) : LacksType(e.kids[k])

\* C24: in every compiled module the type of every leaf, leaf-list and typedef
\* has a derivation pointer, and a leaf, leaf-list or typedef without a type
\* statement makes the compile fail.
C24_TypeRequired ==
  /\ \A m \in RegisteredModules : \A t \in TypesOf(m) : t.der # NoTpdf
  /\ (last.st # "none" /\ LacksType(last.doc)) => last.st = "fail"

\* ----------------------------------------------------------- sibling names
\* sibling documents: two top-level leaves of one name; a leaf and a
\* container of one name in a container; two leaves of one name in a list;
\* a module whose equal names are under different parents
TwinLeavesDoc ==
  Module("s1", "p1", <<Leaf("x", Type(<<"string">>)), Leaf("x", Type(<<"uint8">>))>>)

SiblingDocs ==
  { TwinLeavesDoc,
    Module("s2", "p2", <<Container("c", <<Leaf("x", Type(<<"string">>)),
                                          Container("x", <<>>)>>)>>),
    Module("s3", "p3", <<List("l", <<Key(<<"a">>), Leaf("a", Type(<<"string">>)),
                                     Leaf("a", Type(<<"uint8">>))>>)>>),
    Module("s4", "p4", <<Leaf("x", Type(<<"string">>)),
                         Container("c", <<Leaf("x", Type(<<"string">>))>>),
                         Container("d", <<Leaf("x", Type(<<"string">>))>>)>>) }

NextSibling == \E doc \in SiblingDocs : YinReadModule(doc)

SpecSibling == Init /\ [][NextSibling]_vars

\* two data statements among the children of e, or of a statement below it,
\* have the same name
RECURSIVE TwinSiblings(_)
TwinSiblings(e) ==
  \/ \E j, k \in 1..Len(e.kids) :
       /\ j < k
       /\ e.kids[j].name \in DataStmts /\ e.kids[k].name \in DataStmts
       /\ e.kids[j].arg = e.kids[k].arg
  \/ \E k \in 1..Len(e.kids) : TwinSiblings(e.kids[k])

\* C25: in every compiled module no two schema nodes under the same parent, or
\* at the top level, have the same name, and a module that declares two
\* siblings of the same name fails to compile.
C25_SiblingNamesUnique ==
  /\ \A m \in RegisteredModules :
       \A p, q \in DOMAIN heap[m].nodes :
         (p # q /\ Front(p) = Front(q)) => heap[m].nodes[p].name # heap[m].nodes[q].name
  /\ (last.st # "none" /\ TwinSiblings(last.doc)) => last.st = "fail"

\* ------------------------------------------------------ yanglint's commands
\* A path names a file of the environment: its extension and what the file is
\* ("missing": open fails; "nostat": fstat fails; "dir": no regular file;
\* "empty": a regular file of size 0; "bad": its content does not parse;
\* "good": it parses, as the model or the data called `name`).
Path(name, ext, kind) == [name |-> name, ext |-> ext, kind |-> kind]

\* the descriptors open() can return
LintFds == {3, 4}

\* the features of the models the files hold
FeaturesOf(name) == IF name = "m" THEN {"f1", "f2"} ELSE {}

\* a command under way: the shell, with the system calls made so far
Run(cmd) ==
  [lint EXCEPT !.cmd = cmd, !.ret = 1, !.st = "ret", !.err = FALSE,
               !.effect = "none", !.trace = <<>>]

\* fprintf(stderr, ...), or an error printed by the library
Report(r) == [r EXCEPT !.err = TRUE]

\* fd = open(path, O_RDONLY): [r, fd]
Open(r, path) ==
  IF path.kind = "missing" \/ LintFds \ r.fds = {}
  THEN [r |-> [r EXCEPT !.trace = Append(@, <<"open", -1>>)], fd |-> -1]
  ELSE LET fd == CHOOSE d \in LintFds \ r.fds : \A o \in LintFds \ r.fds : d <= o
       IN [r |-> [r EXCEPT !.fds = @ \cup {fd}, !.trace = Append(@, <<"open", fd>>)],
           fd |-> fd]

\* close(fd)
Close(r, fd) == [r EXCEPT !.fds = @ \ {fd}, !.trace = Append(@, <<"close", fd>>)]

\* a cleanup that leaves the descriptor open
CloseNever(r, fd) == r

\* cleanup: if (fd != -1) { close(fd); }
CloseIfOpen(r, fd) == IF fd # -1 THEN Close(r, fd) ELSE r

\* addr = mmap(NULL, sb.st_size, ...) fails for a file of size 0 and is not
\* checked: the parser reads through MAP_FAILED and the shell dies
Crashed(r) == [r EXCEPT !.st = "crash"]

\* lys_parse(ctx, addr, format) of a file that parses: the model is added to
\* the context with its features off; a model that is loaded already is
\* rejected
LysParse(r, name) ==
  IF name \in DOMAIN r.models THEN r
  ELSE [r EXCEPT !.models = [n \in DOMAIN r.models \cup {name} |->
                               IF n = name THEN [f \in FeaturesOf(name) |-> FALSE]
                               ELSE r.models[n]]]

\* while (path) { ... } of cmd_add, path the k-th of the paths of the argument
RECURSIVE AddLoop(_, _, _)
AddLoop(paths, k, r) ==
  IF k > Len(paths) THEN [r EXCEPT !.ret = 0, !.effect = "added"]
  ELSE
    LET path == paths[k]
        opened(o) ==
          IF o.fd = -1 THEN Report(o.r)
          ELSE IF path.kind \in {"nostat", "dir"} THEN Close(Report(o.r), o.fd)
          ELSE IF path.kind = "empty" THEN Crashed(o.r)
          ELSE IF path.kind = "bad" \/ path.name \in DOMAIN o.r.models
          THEN Close(Report(o.r), o.fd)
          ELSE AddLoop(paths, k + 1, Close(LysParse(o.r, path.name), o.fd))
    IN IF path.ext \notin {"yin", "yang", ""} THEN Report(r)
       ELSE opened(Open(r, path))

\* cmd_add(arg), arg "add" followed by the paths
CmdAddRun(paths) ==
  IF paths = <<>> THEN Run("add")
  ELSE AddLoop(paths, 1, Run("add"))

\* the option loop of cmd_parse: acc = [format, out_path, go], go "on", "help"
\* or "error"
RECURSIVE ParseOpts(_, _, _)
ParseOpts(opts, k, acc) ==
  IF k > Len(opts) \/ acc.go # "on" THEN acc
  ELSE
    LET c == opts[k].o
        optarg == opts[k].arg
        next ==
          IF c = "h" THEN [acc EXCEPT !.go = "help"]
          ELSE IF c = "f"
          THEN IF optarg \in {"xml", "json"} THEN [acc EXCEPT !.format = optarg]
               ELSE [acc EXCEPT !.go = "error"]
          ELSE IF c = "o"
          THEN IF acc.out_path # "" THEN [acc EXCEPT !.go = "error"]
               ELSE [acc EXCEPT !.out_path = optarg]
          ELSE IF c = "s" THEN acc
          ELSE [acc EXCEPT !.go = "error"]
    IN ParseOpts(opts, k + 1, next)

\* cmd_parse(arg, options) from the open of the data file on; the shell does
\* not get to cleanup when it dies
ParseFile(a, acc, r) ==
  LET \* output = fopen(out_path, "w") and the print
      print(p) ==
        IF acc.out_path = "readonly" THEN Report(p)
        ELSE [p EXCEPT !.ret = 0,
                       !.effect = IF acc.out_path # "" \/ acc.format # "unknown"
                                  THEN "printed" ELSE "parsed"]
      cleanup(p, fd) == IF p.st = "crash" THEN p ELSE CloseIfOpen(p, fd)
      opened(o) ==
        cleanup(IF o.fd = -1 THEN Report(o.r)
                ELSE IF a.file.kind \in {"nostat", "dir"} THEN Report(o.r)
                ELSE IF a.file.kind = "empty" THEN Crashed(o.r)
                ELSE IF a.file.kind = "bad" THEN Report(o.r)
                ELSE print(o.r),
                o.fd)
  IN opened(Open(r, a.file))

\* no file name in the argument
NoFile == Path("", "", "none")

\* cmd_parse(arg, options): a = [opts, file]

CmdParseRun(cmd, a) ==
  With(ParseOpts(a.opts, 1, [format |-> "unknown", out_path |-> "", go |-> "on"]),
       LAMBDA acc :
    IF acc.go = "help" THEN [Run(cmd) EXCEPT !.ret = 0, !.effect = "help"]
    ELSE IF acc.go = "error" \/ a.file = NoFile THEN Report(Run(cmd))
    ELSE ParseFile(a, acc, Run(cmd)))

\* the option loop of cmd_xpath: acc = [expr, ctx_node_path, go]
RECURSIVE XpathOpts(_, _, _)
XpathOpts(opts, k, acc) ==
  IF k > Len(opts) \/ acc.go # "on" THEN acc
  ELSE
    LET c == opts[k].o
        optarg == opts[k].arg
        next ==
          IF c = "h" THEN [acc EXCEPT !.go = "help"]
          ELSE IF c = "e" THEN [acc EXCEPT !.expr = optarg]
          ELSE IF c = "c"
          THEN IF optarg = "malformed" THEN [acc EXCEPT !.go = "error"]
               ELSE [acc EXCEPT !.ctx_node_path = optarg]
          ELSE [acc EXCEPT !.go = "error"]
    IN XpathOpts(opts, k + 1, next)

\* cmd_xpath(arg) from the open of the data file on
XpathFile(a, acc, r) ==
  LET eval(p) ==
        IF acc.ctx_node_path = "nowhere" THEN Report(p)
        ELSE IF acc.expr = "invalid" THEN Report(p)
        ELSE [p EXCEPT !.ret = 0, !.effect = "evaluated"]
      cleanup(p, fd) == IF p.st = "crash" THEN p ELSE CloseIfOpen(p, fd)
      opened(o) ==
        cleanup(IF o.fd = -1 THEN Report(o.r)
                ELSE IF a.file.kind \in {"nostat", "dir"} THEN Report(o.r)
                ELSE IF a.file.kind = "empty" THEN Crashed(o.r)
                ELSE IF a.file.kind = "bad" THEN Report(o.r)
                ELSE eval(o.r),
                o.fd)
  IN opened(Open(r, a.file))

CmdXpathRun(a) ==
  With(XpathOpts(a.opts, 1, [expr |-> "", ctx_node_path |-> "", go |-> "on"]),
       LAMBDA acc :
    IF acc.go = "help" THEN [Run("xpath") EXCEPT !.ret = 0, !.effect = "help"]
    ELSE IF acc.go = "error" \/ a.file = NoFile \/ acc.expr = "" THEN Report(Run("xpath"))
    ELSE XpathFile(a, acc, Run("xpath")))

\* the option loop of cmd_feature: acc = [task, feat_names, go]
RECURSIVE FeatureOpts(_, _, _)
FeatureOpts(opts, k, acc) ==
  IF k > Len(opts) \/ acc.go # "on" THEN acc
  ELSE
    LET c == opts[k].o
        optarg == opts[k].arg
        next ==
          IF c = "h" THEN [acc EXCEPT !.go = "help"]
          ELSE IF c \in {"e", "d"}
          THEN IF acc.task # 0 THEN [acc EXCEPT !.go = "error"]
               ELSE [acc EXCEPT !.task = IF c = "e" THEN 1 ELSE 2, !.feat_names = optarg]
          ELSE [acc EXCEPT !.go = "error"]
    IN FeatureOpts(opts, k + 1, next)

\* while (feat_names) { ... }: lys_features_enable and lys_features_disable
\* return non-zero for a feature the model does not have
RECURSIVE SetFeatures(_, _, _, _, _)
SetFeatures(names, k, task, model, r) ==
  IF k > Len(names) THEN r
  ELSE SetFeatures(names, k + 1, task, model,
                   IF names[k] \notin DOMAIN r.models[model]
                   THEN [Report(r) EXCEPT !.ret = 1]
                   ELSE [r EXCEPT !.models[model][names[k]] = (task = 1)])

\* cmd_feature(arg): a = [opts, model], model "" when no model name is given.
\* ret is 1 from its declaration on and is set to 0 for the help only.
CmdFeatureRun(a) ==
  LET switched(r) == [r EXCEPT !.effect = IF r.err THEN "none" ELSE "switched"] IN
  With(FeatureOpts(a.opts, 1, [task |-> 0, feat_names |-> <<>>, go |-> "on"]),
       LAMBDA acc :
    IF acc.go = "help" THEN [Run("feature") EXCEPT !.ret = 0, !.effect = "help"]
    ELSE IF acc.go = "error" \/ a.model = "" THEN Report(Run("feature"))
    ELSE IF a.model \notin DOMAIN lint.models THEN Report(Run("feature"))
    ELSE IF acc.task = 0 THEN [Run("feature") EXCEPT !.effect = "listed"]
    ELSE switched(SetFeatures(acc.feat_names, 1, acc.task, a.model, Run("feature"))))

\* the verbosity levels by name and by number
Verbosity ==
  [error |-> 0, warning |-> 1, verbose |-> 2, debug |-> 3]

\* cmd_verb(arg), verb what follows "verb " and "" when nothing does
CmdVerbRun(verb) ==
  IF verb = "" THEN Run("verb")
  ELSE IF verb \in DOMAIN Verbosity
  THEN [Run("verb") EXCEPT !.verb = Verbosity[verb], !.ret = 0, !.effect = "verbosity"]
  ELSE IF verb \in {"0", "1", "2", "3"}
  THEN [Run("verb") EXCEPT !.verb = CHOOSE n \in 0..3 : ToString(n) = verb,
                           !.ret = 0, !.effect = "verbosity"]
  ELSE Report(Run("verb"))

\* a command of the shell: it runs to its return, or the shell dies in it
Command(r) ==
  /\ calls < MaxCalls
  /\ lint.st # "crash"
  /\ calls' = calls + 1
  /\ lint' = r
  /\ UNCHANGED <<ctx, heap, build, last>>

CmdAdd(paths) == Command(CmdAddRun(paths))

\* cmd_data, cmd_config and cmd_filter
CmdParse(cmd, a) == Command(CmdParseRun(cmd, a))

CmdXpath(a) == Command(CmdXpathRun(a))

CmdFeature(a) == Command(CmdFeatureRun(a))

CmdVerb(verb) == Command(CmdVerbRun(verb))

\* ------------------------------------------------------ the shell's inputs
Opt(o, arg) == [o |-> o, arg |-> arg]

\* model files: two that parse, one without extension that does not, one of
\* an unknown extension, and one of every other kind
ModelM == Path("m", "yin", "good")

ModelE == Path("e", "yang", "good")

AddArgs ==
  { <<>>, <<ModelM>>, <<ModelE>>, <<ModelM, ModelE>>, <<ModelM, ModelM>>,
    <<Path("n", "", "bad")>>, <<Path("m", "txt", "good")>>,
    <<ModelM, Path("x", "yin", "missing")>>, <<ModelE, Path("s", "yin", "nostat")>>,
    <<Path("d", "yang", "dir")>>, <<ModelM, Path("z", "yin", "empty")>> }

\* data files of every kind
DataFiles ==
  {NoFile} \cup {Path("data", "xml", k) :
                  k \in {"good", "bad", "missing", "nostat", "dir", "empty"}}

\* options of data, config and filter: none, help, a format, an unknown
\* format, an output file, an output file that cannot be opened, two output
\* files, strict, an unknown option
ParseArgs ==
  [opts : { <<>>, <<Opt("h", "")>>, <<Opt("f", "json")>>, <<Opt("f", "yaml")>>,
            <<Opt("o", "out")>>, <<Opt("o", "readonly")>>,
            <<Opt("o", "out"), Opt("o", "out")>>, <<Opt("s", ""), Opt("f", "xml")>>,
            <<Opt("?", "")>> },
   file : DataFiles]

\* options of xpath: none, help, an expression, an invalid expression, an
\* expression with a context node that is found, not found, or malformed
XpathArgs ==
  [opts : { <<>>, <<Opt("h", "")>>, <<Opt("e", "ok")>>, <<Opt("e", "invalid")>>,
            <<Opt("e", "ok"), Opt("c", "found")>>, <<Opt("e", "ok"), Opt("c", "nowhere")>>,
            <<Opt("c", "malformed"), Opt("e", "ok")>>, <<Opt("?", "")>> },
   file : DataFiles]

\* options of feature: none (list), help, enable and disable of features
\* that exist or not, both enable and disable
FeatureArgs ==
  [opts : { <<>>, <<Opt("h", <<>>)>>, <<Opt("e", <<"f1">>)>>, <<Opt("e", <<"f1", "f2">>)>>,
            <<Opt("d", <<"f1">>)>>, <<Opt("e", <<"f1", "nofeat">>)>>,
            <<Opt("e", <<"f1">>), Opt("d", <<"f2">>)>>, <<Opt("?", <<>>)>> },
   model : {"", "m", "e", "nomodel"}]

VerbArgs == {"", "error", "warning", "verbose", "debug", "0", "3", "loud"}

NextLint ==
  \/ \E paths \in AddArgs : CmdAdd(paths)
  \/ \E cmd \in {"data", "config", "filter"} : \E a \in ParseArgs : CmdParse(cmd, a)
  \/ \E a \in XpathArgs : CmdXpath(a)
  \/ \E a \in FeatureArgs : CmdFeature(a)
  \/ \E verb \in VerbArgs : CmdVerb(verb)

SpecLint == Init /\ [][NextLint]_vars

\* the trace balances: every close is of a descriptor that an open returned
\* and that is still open, and nothing is open at the end
RECURSIVE Balanced(_, _, _)
Balanced(trace, k, open) ==
  IF k > Len(trace) THEN open = {}
  ELSE IF trace[k][1] = "open"
  THEN Balanced(trace, k + 1, IF trace[k][2] = -1 THEN open ELSE open \cup {trace[k][2]})
  ELSE trace[k][2] \in open /\ Balanced(trace, k + 1, open \ {trace[k][2]})

\* C26: in add, data, config, filter and xpath every descriptor that a
\* successful open returned is closed exactly once before the command
\* returns, on every path, and no close is issued when the open failed.
C26_DescriptorsClosed ==
  (lint.st = "ret" /\ lint.cmd \in {"add", "data", "config", "filter", "xpath"}) =>
    /\ Balanced(lint.trace, 1, {})
    /\ lint.fds = {}

\* data has returned after its data file parsed and its output file could not
\* be opened, with one open and one close of the descriptor
C26_Witness ==
  /\ lint.cmd = "data"
  /\ lint.st = "ret"
  /\ lint.err
  /\ lint.trace = << <<"open", 3>>, <<"close", 3>> >>

\* C27: every command returns 0 when it completes its task and a non-zero
\* value when it reports an error; so feature returns 0 after listing the
\* features of a model that exists and after enabling or disabling features
\* that all exist.
C27_ReturnValues ==
  (lint.st = "ret" /\ lint.cmd # "none") =>
    /\ lint.effect # "none" => lint.ret = 0
    /\ lint.err => lint.ret # 0

\* ------------------------------------------------- growth of the module list
\* the pointers that the block of the list holds: what ly_ctx_new allocated,
\* or, after a growth, the size * 2 bytes that realloc was asked for, and size
\* is twice the old size by then
BlockPtrs(c) ==
  IF c.size = InitSize THEN InitSize ELSE c.size \div SizeofPtr

\* C28: when the list of modules is full, yin_read_module doubles its capacity
\* in pointers, and every index it fills with NULL or stores a module at lies
\* inside the block allocated; after any number of registrations used <= size
\* and the entries below used are the registered modules in the order of
\* their registration.
C28_ListGrowth ==
  /\ ctx.size <= BlockPtrs(ctx)
  /\ ctx.used <= ctx.size
  /\ last.st = "ok" => SubSeq(ctx.list, 1, ctx.used) = Append(last.list, last.ret)

\* --------------------------------------------------- identityref resolution
\* identityref documents: the chain base <- a <- b; a leaf whose identityref
\* names an imported identity; one whose base is in no module; a module with
\* an identity, a leaf and a typedef of identityref naming it; a module with
\* an identity derived from an imported one
IdentityrefDoc ==
  Module("t", "pt", <<Import("p", "q"),
                      Leaf("l", E("type", <<"identityref">>,
                                  <<E("base", <<"q", ":", "a">>, <<>>)>>))>>)

IdentrefDocs ==
  { ChainDoc, IdentityrefDoc,
    Module("u", "pu", <<Import("p", "q"),
                        Leaf("l", E("type", <<"identityref">>,
                                    <<E("base", <<"q", ":", "nosuch">>, <<>>)>>))>>),
    Module("v", "pv", <<Identity("r", <<>>), Identity("s", <<"r">>),
                        Typedef("it", E("type", <<"identityref">>,
                                        <<E("base", <<"r">>, <<>>)>>)),
                        Leaf("l", E("type", <<"identityref">>,
                                    <<E("base", <<"pv", ":", "s">>, <<>>)>>))>>),
    Module("y", "py", <<Import("p", "q"), Identity("y", <<"q", ":", "a">>)>>) }

NextIdentref == \E doc \in IdentrefDocs : YinReadModule(doc)

SpecIdentref == Init /\ [][NextIdentref]_vars

\* the document has an identity with a base statement
DefinesDerived(doc) ==
  \E k \in 1..Len(doc.kids) :
    doc.kids[k].name = "identity" /\ StmtArg(doc.kids[k], "base") # NoAttr

\* C29: resolving the base of an identityref type changes nothing in the
\* identity graph: a call on a module without an identity that has a base
\* leaves the base pointer and the derived list of every identity of every
\* module as they were, whether its lookups succeed or fail; only an identity
\* definition with a base adds entries to derived lists.
C29_IdentityrefFrame ==
  [][ ~DefinesDerived(last'.doc) =>
        \A h \in Handles : heap[h].live => heap'[h].ident = heap[h].ident ]_vars

\* the module whose leaf names the imported identity a has compiled, the
\* leaf refers to a, and a has its derived identity b
C29_Witness ==
  /\ last.doc = IdentityrefDoc
  /\ last.st = "ok"
  /\ heap[last.ret].nodes[<<4>>].type.ident.i = 2
  /\ heap[heap[last.ret].nodes[<<4>>].type.ident.m].name = <<"p">>
  /\ IdentAt(heap, heap[last.ret].nodes[<<4>>].type.ident).der # <<>>

\* ------------------------------------------- derived lists after a failure
\* the entries of the derived lists of the identities of registered modules
DerivedEntries ==
  UNION {{IdentAt(heap, ident).der[k] : k \in 1..Len(IdentAt(heap, ident).der)} :
           ident \in Identities}

\* C30: after a yin_read_module call has failed and the module it built is
\* destroyed, a duplicate registration included, no identity of a registered
\* module has a derived-list entry that refers to an identity of the destroyed
\* module, also when the failed module had identities with a base in an
\* imported module.
C30_NoDanglingDerived ==
  last.st = "fail" => \A d \in DerivedEntries : heap[d.m].live

====
